---- MODULE Spec2Model ----
(***************************************************************************)
(* Model of the result-aggregation tools of sst-sat (src/tools):           *)
(* timeout classification, multi-seed reconciliation and PAR-2 scoring of  *)
(* parse_results.py, plot_comparison.py and plot_l2_sweep.py.              *)
(*                                                                         *)
(* A run record is the dict the parser returns, reduced to the keys the    *)
(* modelled code reads: test_case, result, sim_time_ms and one solver      *)
(* counter (decisions) standing for the averaged numeric fields.           *)
(* Times are milliseconds.  Python floats are modelled by exact rationals  *)
(* [num, den] in lowest terms, so equality of scores is structural.        *)
(* A result label is the sequence of its whitespace-separated tokens:      *)
(* "SAT" is <<"SAT">>, "SAT 1" is <<"SAT", <<1>>>>, "SAT 1/2" is           *)
(* <<"SAT", <<1, 2>>>>; label.split()[0] is the first token and            *)
(* ' ' in label is Len(label) > 1.                                         *)
(***************************************************************************)
EXTENDS Integers, Sequences, FiniteSets, TLC

VARIABLES
    pc,               \* position of the tool being run
    timeout_seconds,  \* the timeout_seconds argument
    res_list,         \* records returned by parse_log_directory for one folder
    shared_tests,     \* shared_tests argument of compute_par2_on_shared_set
    scorer,           \* which scorer ran (and, for the shared set, its policy flag)
    out,              \* what the scorer returned
    prev_out,         \* what it returned before ERROR/UNKNOWN records were added
    entries,          \* the per-seed records of one test case (reconciler input)
    agg,              \* aggregate record built by parse_results_folder
    plot_agg,         \* aggregate record built by compute_metrics_for_folder
    seed_results,     \* list (per seed) of record lists
    averaged,         \* entries_for_averaging of the last aggregated test case
    multi,            \* locals of the multi-seed branch of parse_results_folder
    log_file,         \* name and content of the log file given to parse_log_file
    record,           \* the dictionary parse_log_file returned
    logs_dir,         \* the logs of the directory or folder given to the tool
    bin_keys,         \* the keys given to sort_bin_keys
    folder_metrics,   \* the folders given to get_shared_test_set, in name order
    options           \* the flags (and manual lists) the tool is run with

vars == <<pc, timeout_seconds, res_list, shared_tests, scorer, out, prev_out,
          entries, agg, plot_agg, seed_results, averaged, multi, log_file, record, logs_dir, bin_keys,
                   folder_metrics, options>>

-----------------------------------------------------------------------------
(* Bounds of the model *)

MaxTimeoutSeconds == 1
MaxRecords == 2
MaxAdded == 1
MaxSeeds == 3
MaxSeedDirs == 2

(* Program constants *)

MsPerSecond == 1000

Idle == [idle |-> TRUE]
None == [none |-> TRUE]

(* Result labels as token sequences *)

SAT == <<"SAT">>
UNSAT == <<"UNSAT">>
TIMEOUT == <<"TIMEOUT">>
ERROR == <<"ERROR">>
UNKNOWN == <<"UNKNOWN">>

(* f'{label} {k}' and f"{label} {k}/{n}" *)
WithCount(label, k) == <<label[1], <<k>>>>
WithRatio(label, k, n) == <<label[1], <<k, n>>>>
(* result_str.split()[0] and ' ' in result_str *)
PrimaryLabel(result_str) == <<result_str[1]>>
HasSuffix(result_str) == Len(result_str) > 1

Outcomes == {SAT, UNSAT, TIMEOUT, ERROR, UNKNOWN}
Cases == {"a", "b"}
StatsOnlyCase == "c"
CaseOrder == <<"a", "b", "c">>
SimTimes == {500, 1000, 1200}
TimeoutChoices == 1..MaxTimeoutSeconds

CaseRank(c) == CHOOSE i \in 1..Len(CaseOrder) : CaseOrder[i] = c

Rec(c, o, t, d) == [test_case |-> c, result |-> o, sim_time_ms |-> t, decisions |-> d]

-----------------------------------------------------------------------------
(* Exact rationals standing for Python floats *)

RECURSIVE GCD(_, _)
GCD(a, b) == IF b = 0 THEN a ELSE GCD(b, a % b)

Rat(n, d) == LET g == GCD(n, d) IN [num |-> n \div g, den |-> d \div g]
Zero == [num |-> 0, den |-> 1]
RatOfInt(n) == [num |-> n, den |-> 1]
RatAdd(x, y) == Rat(x.num * y.den + y.num * x.den, x.den * y.den)
RatDivInt(x, k) == Rat(x.num, x.den * k)
RatMul(x, y) == Rat(x.num * y.num, x.den * y.den)
RatLeq(x, y) == x.num * y.den <= y.num * x.den
RatLess(x, y) == x.num * y.den < y.num * x.den

RECURSIVE SeqSumRat(_)
SeqSumRat(s) == IF s = <<>> THEN Zero ELSE RatAdd(Head(s), SeqSumRat(Tail(s)))

RECURSIVE SeqSum(_)
SeqSum(s) == IF s = <<>> THEN 0 ELSE Head(s) + SeqSum(Tail(s))

(* sum(f[x] for x in S) *)
RECURSIVE SumOver(_, _)
SumOver(S, f) ==
    IF S = {} THEN 0
    ELSE LET x == CHOOSE x \in S : TRUE IN f[x] + SumOver(S \ {x}, f)

-----------------------------------------------------------------------------
(* parse_results.py: parse_results_folder._avg_of *)

avg_of(values) ==
    IF values = <<>> THEN Zero ELSE RatDivInt(SeqSumRat(values), Len(values))

timeout_ms_of(secs) == secs * MsPerSecond

(* parse_results.py: parse_results_folder._compute_par2_and_solved *)

RECURSIVE Par2LoopStrictBoundary(_, _, _)
Par2LoopStrictBoundary(rs, T, acc) ==
    IF rs = <<>> THEN acc
    ELSE LET r == Head(rs)
             nxt == IF r.result \in {ERROR, UNKNOWN}
                      THEN [acc EXCEPT !.excluded = Append(@, r.test_case)]
                    ELSE IF r.result = TIMEOUT
                      THEN [acc EXCEPT !.par2_total = @ + 2 * T]
                    ELSE IF r.result \in {SAT, UNSAT} /\ r.sim_time_ms < T
                      THEN [acc EXCEPT !.par2_total = @ + r.sim_time_ms,
                                       !.solved = @ + 1]
                    ELSE [acc EXCEPT !.par2_total = @ + 2 * T]
         IN Par2LoopStrictBoundary(Tail(rs), T, nxt)

RECURSIVE Par2Loop(_, _, _)
Par2Loop(rs, T, acc) ==
    IF rs = <<>> THEN acc
    ELSE LET r == Head(rs)
             nxt == IF r.result \in {ERROR, UNKNOWN}
                      THEN [acc EXCEPT !.excluded = Append(@, r.test_case)]
                    ELSE IF r.result = TIMEOUT
                      THEN [acc EXCEPT !.par2_total = @ + 2 * T]
                    ELSE IF r.result \in {SAT, UNSAT} /\ r.sim_time_ms <= T
                      THEN [acc EXCEPT !.par2_total = @ + r.sim_time_ms,
                                       !.solved = @ + 1]
                    ELSE [acc EXCEPT !.par2_total = @ + 2 * T]
         IN Par2Loop(Tail(rs), T, nxt)

compute_par2_and_solved(rl, secs) ==
    IF rl = <<>> THEN [par2_score |-> Zero, solved |-> 0, excluded |-> <<>>, total |-> 0]
    ELSE LET T == timeout_ms_of(secs)
             acc == Par2Loop(rl, T, [par2_total |-> 0, solved |-> 0, excluded |-> <<>>])
             valid_count == Len(rl) - Len(acc.excluded)
         IN [par2_score |-> IF valid_count > 0
                              THEN RatDivInt(Rat(acc.par2_total, valid_count), MsPerSecond)
                              ELSE Zero,
             solved |-> acc.solved,
             excluded |-> acc.excluded,
             total |-> valid_count]

-----------------------------------------------------------------------------
(* plot_l2_sweep.py: compute_par2_score *)

RECURSIVE L2Loop(_, _)
L2Loop(rs, T) ==
    IF rs = <<>> THEN 0
    ELSE LET r == Head(rs)
         IN (IF r.result \in {SAT, UNSAT} /\ r.sim_time_ms > 0 /\ r.sim_time_ms <= T
               THEN r.sim_time_ms
               ELSE 2 * T)
            + L2Loop(Tail(rs), T)

compute_par2_score(results, secs) ==
    IF results = <<>> THEN None
    ELSE LET T == timeout_ms_of(secs)
         IN RatDivInt(Rat(L2Loop(results, T), Len(results)), MsPerSecond)

(* plot_comparison.py: compute_par2_on_shared_set, the body of the loop over
   folders, for the results of one folder *)

SharedResults(results, shared, errors_as_timeout) ==
    IF errors_as_timeout
      THEN SelectSeq(results, LAMBDA r : r.test_case \in shared)
      ELSE SelectSeq(results, LAMBDA r : r.test_case \in shared
                                         /\ r.result \notin {ERROR, UNKNOWN})

(* float(r.get('sim_time_ms', 0.0) or 0.0): the time of a parsed record is an
   integer of milliseconds, that of an aggregate row a mean, and a cleared
   aggregate row has none *)
SimMs(r) ==
    IF "sim_time_ms" \notin DOMAIN r THEN Zero
    ELSE IF "original_test_case" \in DOMAIN r THEN r.sim_time_ms
    ELSE RatOfInt(r.sim_time_ms)

(* the body of the loop over shared_results *)
SharedStep(r, T, errors_as_timeout, acc) ==
    IF errors_as_timeout /\ r.result \in {ERROR, UNKNOWN}
      THEN [acc EXCEPT !.par2_total = RatAdd(@, RatOfInt(T))]
    ELSE IF r.result = TIMEOUT
      THEN [acc EXCEPT !.par2_total = RatAdd(@, RatOfInt(2 * T))]
    ELSE IF r.result \in {SAT, UNSAT} /\ RatLeq(SimMs(r), RatOfInt(T))
      THEN [acc EXCEPT !.par2_total = RatAdd(@, SimMs(r)), !.solved = @ + 1]
    ELSE [acc EXCEPT !.par2_total = RatAdd(@, RatOfInt(2 * T))]

RECURSIVE SharedLoop(_, _, _, _)
SharedLoop(rs, T, errors_as_timeout, acc) ==
    IF rs = <<>> THEN acc
    ELSE SharedLoop(Tail(rs), T, errors_as_timeout,
                    SharedStep(Head(rs), T, errors_as_timeout, acc))

compute_par2_on_shared_set(results, shared, secs, errors_as_timeout) ==
    LET T == timeout_ms_of(secs)
        shared_results == SharedResults(results, shared, errors_as_timeout)
        acc == SharedLoop(shared_results, T, errors_as_timeout,
                          [par2_total |-> Zero, solved |-> 0])
    IN IF shared_results = <<>>
         THEN [par2_score |-> None, solved |-> 0, total |-> 0]
         ELSE [par2_score |-> RatDivInt(RatDivInt(acc.par2_total, Len(shared_results)),
                                        MsPerSecond),
               solved |-> acc.solved,
               total |-> Len(shared_results)]

-----------------------------------------------------------------------------
(* parse_results.py: the timeout classification of the single-run branch,
   applied to one record *)

ClassifyRecordPenaltyFirst(r, T) ==
    LET r1 == IF r.result = TIMEOUT THEN [r EXCEPT !.sim_time_ms = 2 * T] ELSE r
    IN IF r1.result \in {SAT, UNSAT} /\ r1.sim_time_ms > T
         THEN [r1 EXCEPT !.result = TIMEOUT]
         ELSE r1

ClassifyRecordAtBoundary(r, T) ==
    LET r1 == IF r.result \in {SAT, UNSAT} /\ r.sim_time_ms >= T
                THEN [r EXCEPT !.result = TIMEOUT]
                ELSE r
    IN IF r1.result = TIMEOUT THEN [r1 EXCEPT !.sim_time_ms = 2 * T] ELSE r1

ClassifyRecord(r, T) ==
    LET r1 == IF r.result \in {SAT, UNSAT} /\ r.sim_time_ms > T
                THEN [r EXCEPT !.result = TIMEOUT]
                ELSE r
    IN IF r1.result = TIMEOUT THEN [r1 EXCEPT !.sim_time_ms = 2 * T] ELSE r1

ClassifyResults(results, T) == [i \in 1..Len(results) |-> ClassifyRecord(results[i], T)]

(* plot_comparison.py: the same loop in compute_metrics_for_folder *)

PlotClassifyRecord(r, T) ==
    LET r1 == IF r.result \in {SAT, UNSAT} /\ r.sim_time_ms > T
                THEN [r EXCEPT !.result = TIMEOUT]
                ELSE r
    IN IF r1.result = TIMEOUT THEN [r1 EXCEPT !.sim_time_ms = 2 * T] ELSE r1

PlotClassifyResults(results, T) ==
    [i \in 1..Len(results) |-> PlotClassifyRecord(results[i], T)]

(* list.sort(key=test_case): a stable sort *)

RECURSIVE InsertByCase(_, _)
InsertByCase(sorted, r) ==
    IF sorted = <<>> THEN <<r>>
    ELSE IF CaseRank(r.test_case) < CaseRank(Head(sorted).test_case)
      THEN <<r>> \o sorted
      ELSE <<Head(sorted)>> \o InsertByCase(Tail(sorted), r)

RECURSIVE SortByCase(_)
SortByCase(rs) ==
    IF rs = <<>> THEN <<>>
    ELSE InsertByCase(SortByCase(SubSeq(rs, 1, Len(rs) - 1)), rs[Len(rs)])

(* parse_results.py: the statistics section of the single-run branch: the PAR-2
   loop over valid_results and the score handed to write_csv_report *)

RECURSIVE ValidLoop(_, _, _)
ValidLoop(rs, T, acc) ==
    IF rs = <<>> THEN acc
    ELSE LET r == Head(rs)
             nxt == IF r.result = TIMEOUT
                      THEN [acc EXCEPT !.par2_total = @ + 2 * T]
                    ELSE IF r.result \in {SAT, UNSAT} /\ r.sim_time_ms <= T
                      THEN [acc EXCEPT !.par2_total = @ + r.sim_time_ms,
                                       !.solved = @ + 1]
                    ELSE [acc EXCEPT !.par2_total = @ + 2 * T]
         IN ValidLoop(Tail(rs), T, nxt)

SingleRunScore(results, secs) ==
    LET T == timeout_ms_of(secs)
        sorted == SortByCase(results)
        excluded_tests == SelectSeq(sorted, LAMBDA r : r.result \in {ERROR, UNKNOWN})
        valid_results == SelectSeq(sorted, LAMBDA r : r.result \notin {ERROR, UNKNOWN})
        acc == ValidLoop(valid_results, T, [par2_total |-> 0, solved |-> 0])
    IN [results |-> sorted,
        par2_score |-> IF valid_results # <<>>
                         THEN RatDivInt(Rat(acc.par2_total, Len(valid_results)), MsPerSecond)
                         ELSE Zero,
        solved |-> acc.solved,
        total |-> Len(valid_results),
        excluded |-> [i \in 1..Len(excluded_tests) |-> excluded_tests[i].test_case]]

(* plot_comparison.py: compute_metrics_for_folder, from "Collect excluded
   tests" to the returned dict *)

PlotMetrics(results, secs) ==
    LET T == timeout_ms_of(secs)
        excluded_tests == SelectSeq(results, LAMBDA r : r.result \in {ERROR, UNKNOWN})
        valid_results == SelectSeq(results, LAMBDA r : r.result \notin {ERROR, UNKNOWN})
        acc == ValidLoop(valid_results, T, [par2_total |-> 0, solved |-> 0])
    IN [results |-> results,
        par2_score |-> IF valid_results # <<>>
                         THEN RatDivInt(Rat(acc.par2_total, Len(valid_results)), MsPerSecond)
                         ELSE None,
        solved |-> acc.solved,
        total |-> Len(valid_results),
        excluded |-> [i \in 1..Len(excluded_tests) |-> excluded_tests[i].test_case]]

-----------------------------------------------------------------------------
(* parse_results.py: parse_results_folder, the aggregate result label of one
   test case from the labels of its seeds *)

Range(s) == {s[i] : i \in DOMAIN s}
CountOf(seed_labels, l) == Cardinality({i \in DOMAIN seed_labels : seed_labels[i] = l})
CountNot(seed_labels, l) == Cardinality({i \in DOMAIN seed_labels : seed_labels[i] # l})

ReconcileLabelAlwaysSuffixed(seed_labels) ==
    LET unique_labels == Range(seed_labels)
        n == Len(seed_labels)
        has_sat == SAT \in unique_labels
        has_unsat == UNSAT \in unique_labels
    IN IF has_sat /\ has_unsat THEN ERROR
       ELSE IF has_sat THEN WithCount(SAT, CountNot(seed_labels, SAT))
       ELSE IF has_unsat THEN WithCount(UNSAT, CountNot(seed_labels, UNSAT))
       ELSE IF ERROR \in unique_labels THEN WithCount(ERROR, CountNot(seed_labels, ERROR))
       ELSE IF TIMEOUT \in unique_labels THEN WithCount(TIMEOUT, CountNot(seed_labels, TIMEOUT))
       ELSE WithCount(UNKNOWN, CountNot(seed_labels, UNKNOWN))

ReconcileLabelCountsMatching(seed_labels) ==
    LET unique_labels == Range(seed_labels)
        n == Len(seed_labels)
        has_sat == SAT \in unique_labels
        has_unsat == UNSAT \in unique_labels
    IN IF Cardinality(unique_labels) = 1 THEN seed_labels[1]
       ELSE IF has_sat /\ has_unsat THEN ERROR
       ELSE IF has_sat THEN WithCount(SAT, CountOf(seed_labels, SAT))
       ELSE IF has_unsat THEN WithCount(UNSAT, CountOf(seed_labels, UNSAT))
       ELSE IF ERROR \in unique_labels THEN WithCount(ERROR, n - CountOf(seed_labels, ERROR))
       ELSE IF TIMEOUT \in unique_labels
         THEN WithCount(TIMEOUT, n - CountOf(seed_labels, TIMEOUT))
       ELSE WithCount(UNKNOWN, n - CountOf(seed_labels, UNKNOWN))

ReconcileLabel(seed_labels) ==
    LET unique_labels == Range(seed_labels)
        n == Len(seed_labels)
        has_sat == SAT \in unique_labels
        has_unsat == UNSAT \in unique_labels
    IN IF Cardinality(unique_labels) = 1 THEN seed_labels[1]
       ELSE IF has_sat /\ has_unsat THEN ERROR
       ELSE IF has_sat
         THEN LET non_sat_count == CountNot(seed_labels, SAT)
              IN IF non_sat_count > 0 THEN WithCount(SAT, non_sat_count) ELSE SAT
       ELSE IF has_unsat
         THEN LET non_unsat_count == CountNot(seed_labels, UNSAT)
              IN IF non_unsat_count > 0 THEN WithCount(UNSAT, non_unsat_count) ELSE UNSAT
       ELSE IF ERROR \in unique_labels
         THEN LET error_count == CountOf(seed_labels, ERROR)
              IN IF error_count < n THEN WithCount(ERROR, n - error_count) ELSE ERROR
       ELSE IF TIMEOUT \in unique_labels
         THEN LET timeout_count == CountOf(seed_labels, TIMEOUT)
              IN IF timeout_count < n THEN WithCount(TIMEOUT, n - timeout_count) ELSE TIMEOUT
       ELSE LET unknown_count == CountOf(seed_labels, UNKNOWN)
            IN IF unknown_count < n THEN WithCount(UNKNOWN, n - unknown_count) ELSE UNKNOWN

LabelsOf(es) == [i \in DOMAIN es |-> es[i].result]

(* is_abnormal or is_mixed_non_timeout *)
ClearsNumericFields(result_str) ==
    LET primary_label == PrimaryLabel(result_str)
        is_abnormal == primary_label \in {ERROR, UNKNOWN}
        is_mixed_non_timeout == HasSuffix(result_str) /\ primary_label # TIMEOUT
    IN is_abnormal \/ is_mixed_non_timeout

Finished(es, T) ==
    SelectSeq(es, LAMBDA e : e.result \in {SAT, UNSAT} /\ e.sim_time_ms <= T)

(* result_str == 'TIMEOUT' or result_str.startswith('TIMEOUT ') *)
EntriesForAveraging(es, result_str, T) ==
    IF result_str = TIMEOUT \/ (HasSuffix(result_str) /\ PrimaryLabel(result_str) = TIMEOUT)
      THEN es
      ELSE Finished(es, T)

RECURSIVE TimeValsRawTime(_, _)
TimeValsRawTime(es, T) ==
    IF es = <<>> THEN <<>>
    ELSE LET e == Head(es)
         IN IF e.result \in {ERROR, UNKNOWN} THEN TimeValsRawTime(Tail(es), T)
            ELSE IF e.result = TIMEOUT
              THEN <<RatOfInt(2 * T)>> \o TimeValsRawTime(Tail(es), T)
            ELSE <<RatOfInt(e.sim_time_ms)>> \o TimeValsRawTime(Tail(es), T)

RECURSIVE TimeVals(_, _)
TimeVals(es, T) ==
    IF es = <<>> THEN <<>>
    ELSE LET e == Head(es)
         IN IF e.result \in {ERROR, UNKNOWN} THEN TimeVals(Tail(es), T)
            ELSE IF e.result = TIMEOUT THEN <<RatOfInt(2 * T)>> \o TimeVals(Tail(es), T)
            ELSE IF e.result \in {SAT, UNSAT} /\ e.sim_time_ms <= T
              THEN <<RatOfInt(e.sim_time_ms)>> \o TimeVals(Tail(es), T)
            ELSE <<RatOfInt(2 * T)>> \o TimeVals(Tail(es), T)

(* parse_results.py: parse_results_folder, the body of the loop over
   sorted(all_cases) for one case with its entries *)
AggregateCase(case, es, secs) ==
    LET T == timeout_ms_of(secs)
        result_str == ReconcileLabel(LabelsOf(es))
        efa == EntriesForAveraging(es, result_str, T)
    IN IF ClearsNumericFields(result_str)
         THEN [test_case |-> case, result |-> result_str]
         ELSE [test_case |-> case,
               result |-> result_str,
               decisions |-> avg_of([i \in DOMAIN efa |-> RatOfInt(efa[i].decisions)]),
               sim_time_ms |-> avg_of(TimeVals(es, T))]

(* plot_comparison.py: compute_metrics_for_folder, the aggregate result label.
   max(set(seed_labels), key=seed_labels.count) returns the first label of
   largest count in the iteration order of a set of strings, which string
   hashing fixes anew in every run: any label of largest count may come out. *)

Majorities(seed_labels) ==
    {l \in Range(seed_labels) :
        \A m \in Range(seed_labels) : CountOf(seed_labels, m) <= CountOf(seed_labels, l)}

PlotReconcileLabels(seed_labels) ==
    LET unique_labels == Range(seed_labels)
        n == Len(seed_labels)
        has_sat == SAT \in unique_labels
        has_unsat == UNSAT \in unique_labels
    IN IF Cardinality(unique_labels) = 1 THEN {seed_labels[1]}
       ELSE IF has_sat /\ has_unsat THEN {WithRatio(SAT, CountNot(seed_labels, SAT), n)}
       ELSE IF has_sat THEN {WithRatio(SAT, CountNot(seed_labels, SAT), n)}
       ELSE IF has_unsat THEN {WithRatio(UNSAT, CountNot(seed_labels, UNSAT), n)}
       ELSE {WithRatio(majority, CountNot(seed_labels, majority), n) :
                majority \in Majorities(seed_labels)}

(* plot_comparison.py: compute_metrics_for_folder, the body of the loop over
   sorted(all_cases) for one case, given the label *)
PlotAggregateCase(case, es, result_str, secs) ==
    LET T == timeout_ms_of(secs)
        efa == EntriesForAveraging(es, result_str, T)
    IN IF ClearsNumericFields(result_str)
         THEN [original_test_case |-> case, test_case |-> case, result |-> result_str]
         ELSE [original_test_case |-> case,
               test_case |-> case,
               result |-> result_str,
               decisions |-> avg_of([i \in DOMAIN efa |-> RatOfInt(efa[i].decisions)]),
               sim_time_ms |-> avg_of(TimeVals(es, T))]

-----------------------------------------------------------------------------
(* parse_results.py: parse_results_folder, multi-seed branch *)

(* {r.get('test_case'): r for r in res}: the last record of a case wins *)
SeedMap(res) ==
    [c \in {res[i].test_case : i \in DOMAIN res} |->
        res[CHOOSE i \in DOMAIN res :
              /\ res[i].test_case = c
              /\ \A j \in DOMAIN res : res[j].test_case = c => j <= i]]

SeedMaps(srs) == [s \in DOMAIN srs |-> SeedMap(srs[s])]

(* plot_comparison.py: get_shared_test_set for one folder whose cases are on
   neither manual list: the cases valid in the folder *)
get_shared_test_set(results, secs, exclude_timeouts, errors_as_timeout) ==
    LET T == timeout_ms_of(secs)
        info_map == SeedMap(results)
        status(c) == PrimaryLabel(info_map[c].result)
        sim_ms(c) == SimMs(info_map[c])
        is_timeout_like(c) ==
            \/ status(c) = TIMEOUT
            \/ (status(c) \in {SAT, UNSAT} /\ RatLess(RatOfInt(T), sim_ms(c)))
            \/ (errors_as_timeout /\ status(c) \in {ERROR, UNKNOWN})
    IN {c \in DOMAIN info_map :
          /\ ~(status(c) \in {ERROR, UNKNOWN} /\ ~errors_as_timeout)
          /\ ~(exclude_timeouts /\ is_timeout_like(c))}

(* the union of the cases of the logs and of the <case>.stats.csv files *)
AllCases(srs, stats_cases) ==
    UNION {{srs[s][i].test_case : i \in DOMAIN srs[s]} : s \in DOMAIN srs} \cup stats_cases

(* sorted(all_cases) *)
SortedCases(cs) == SelectSeq(CaseOrder, LAMBDA c : c \in cs)

PerSeedScores(srs, secs) == [s \in DOMAIN srs |-> compute_par2_and_solved(srs[s], secs)]

EntriesOf(maps, case) ==
    LET present == SelectSeq([s \in DOMAIN maps |-> s], LAMBDA s : case \in DOMAIN maps[s])
    IN [k \in DOMAIN present |-> maps[present[k]][case]]

AggregatedResults(srs, stats_cases, secs) ==
    LET maps == SeedMaps(srs)
        cases == SelectSeq(SortedCases(AllCases(srs, stats_cases)),
                           LAMBDA c : EntriesOf(maps, c) # <<>>)
    IN [k \in DOMAIN cases |-> AggregateCase(cases[k], EntriesOf(maps, cases[k]), secs)]

(* the PAR-2 contribution of one seed's entry in the best-of-seeds loop *)
BestContrib(entry, T) ==
    IF entry.result = TIMEOUT THEN 2 * T
    ELSE IF entry.result \in {SAT, UNSAT} /\ entry.sim_time_ms <= T THEN entry.sim_time_ms
    ELSE 2 * T

SetMin(S) == CHOOSE x \in S : \A y \in S : x <= y

SetMax(S) == CHOOSE x \in S : \A y \in S : y <= x

BestOfCaseLargest(maps, case, T) ==
    LET scored == {s \in DOMAIN maps : /\ case \in DOMAIN maps[s]
                                       /\ maps[s][case].result \notin {ERROR, UNKNOWN}}
    IN SetMax({2 * T} \cup {BestContrib(maps[s][case], T) : s \in scored})

(* best_contrib of one case: the least contribution, starting from the penalty *)
BestOfCase(maps, case, T) ==
    LET scored == {s \in DOMAIN maps : /\ case \in DOMAIN maps[s]
                                       /\ maps[s][case].result \notin {ERROR, UNKNOWN}}
    IN SetMin({2 * T} \cup {BestContrib(maps[s][case], T) : s \in scored})

BestOfSeeds(srs, stats_cases, per_seed, secs) ==
    LET T == timeout_ms_of(secs)
        maps == SeedMaps(srs)
        all_cases == AllCases(srs, stats_cases)
        all_excluded(case) ==
            \A s \in DOMAIN srs :
                case \in DOMAIN maps[s] => case \in Range(per_seed[s].excluded)
        valid == {case \in all_cases : ~all_excluded(case)}
        best == [case \in valid |-> BestOfCase(maps, case, T)]
        valid_test_count == Cardinality(valid)
    IN IF all_cases # {} /\ valid_test_count > 0
         THEN [best_par2_seconds |->
                  RatDivInt(Rat(SumOver(valid, best), valid_test_count), MsPerSecond),
               best_solved_count |-> Cardinality({case \in valid : best[case] < 2 * T}),
               valid_test_count |-> valid_test_count]
         ELSE [best_par2_seconds |-> None, best_solved_count |-> None,
               valid_test_count |-> 0]

(* the seed-averaged statistics *)
SeedAverages(srs, per_seed) ==
    [avg_par2_seconds |-> avg_of([s \in DOMAIN srs |-> per_seed[s].par2_score]),
     avg_solved |-> avg_of([s \in DOMAIN srs |-> RatOfInt(per_seed[s].solved)]),
     avg_valid_cases |->
        avg_of([s \in DOMAIN srs |->
                  RatOfInt(Len(srs[s]) - Len(per_seed[s].excluded))])]

(* the rows of the best-of-seeds report: for each case the entry of the first
   seed with the least contribution, or a placeholder UNKNOWN row *)
BestRow(maps, case, T) ==
    LET present == {s \in DOMAIN maps : case \in DOMAIN maps[s]}
        contrib(s) == IF maps[s][case].result \in {SAT, UNSAT}
                           /\ maps[s][case].sim_time_ms <= T
                        THEN maps[s][case].sim_time_ms
                        ELSE 2 * T
        winners == {s \in present :
                      /\ contrib(s) < 2 * T
                      /\ \A t \in present : contrib(s) <= contrib(t)}
    IN IF winners = {}
         THEN [test_case |-> case, result |-> UNKNOWN, sim_time_ms |-> 2 * T]
         ELSE maps[SetMin(winners)][case]

BestResults(srs, stats_cases, secs) ==
    LET cases == SortedCases(AllCases(srs, stats_cases))
    IN [k \in DOMAIN cases |-> BestRow(SeedMaps(srs), cases[k], timeout_ms_of(secs))]

(* write_csv_report: the rows sorted by test case, then the summary row *)
write_csv_report(results, par2_score_seconds, solved_count, total_problems) ==
    [rows |-> SortByCase(results),
     summary |-> [solved_count |-> solved_count,
                  total_problems |-> total_problems,
                  par2_score_seconds |-> par2_score_seconds]]

(* the report of the multi-seed branch *)
MultiSeedReport(srs, m, dump_best, secs) ==
    IF dump_best /\ AllCases(srs, m.stats_cases) # {}
      THEN write_csv_report(BestResults(srs, m.stats_cases, secs),
                            IF m.best.valid_test_count = 0
                              THEN Zero ELSE m.best.best_par2_seconds,
                            IF m.best.valid_test_count = 0
                              THEN 0 ELSE m.best.best_solved_count,
                            Cardinality(AllCases(srs, m.stats_cases)))
      ELSE write_csv_report(m.aggregated_results,
                            m.averages.avg_par2_seconds,
                            m.averages.avg_solved,
                            m.averages.avg_valid_cases)

-----------------------------------------------------------------------------
(* Scoring one folder's record list: the inputs *)

SeqsUpTo(S, n) == UNION {[1..k -> S] : k \in 0..n}

ScoreRecords == {Rec(c, o, t, 1) : c \in Cases, o \in Outcomes, t \in SimTimes}
ExcludedRecords == {Rec("a", o, 500, 1) : o \in {ERROR, UNKNOWN}}
SharedChoices == {Cases, {"b"}}

InitScore ==
    /\ pc = "start"
    /\ timeout_seconds \in TimeoutChoices
    /\ res_list \in SeqsUpTo(ScoreRecords, MaxRecords)
    /\ shared_tests = {}
    /\ scorer = "none"
    /\ out = Idle
    /\ prev_out = Idle
    /\ entries = Idle
    /\ agg = Idle
    /\ plot_agg = Idle
    /\ seed_results = Idle
    /\ averaged = Idle
    /\ multi = Idle
    /\ log_file = Idle
    /\ record = Idle
    /\ logs_dir = Idle
    /\ bin_keys = Idle
    /\ folder_metrics = Idle
    /\ options = Idle

ScoreFrame == UNCHANGED <<timeout_seconds, res_list, prev_out, entries, agg, plot_agg,
                          seed_results, averaged, multi,
                           log_file, record, logs_dir, bin_keys,
                   folder_metrics, options>>

(* parse_results_folder, multi-seed branch: _compute_par2_and_solved(res) for
   the records of one seed *)
ScorePerSeed ==
    /\ pc = "start"
    /\ scorer \in {"none", "par2_and_solved"}
    /\ out' = compute_par2_and_solved(res_list, timeout_seconds)
    /\ scorer' = "par2_and_solved"
    /\ pc' = "scored"
    /\ UNCHANGED shared_tests
    /\ ScoreFrame

(* plot_l2_sweep.collect_sweep_data: compute_par2_score(results, timeout), which
   it calls for a folder with at least one record *)
ScoreL2Sweep ==
    /\ pc = "start"
    /\ scorer \in {"none", "l2_sweep"}
    /\ res_list # <<>>
    /\ out' = [par2_score |-> compute_par2_score(res_list, timeout_seconds)]
    /\ scorer' = "l2_sweep"
    /\ pc' = "scored"
    /\ UNCHANGED shared_tests
    /\ ScoreFrame

(* plot_comparison: compute_par2_on_shared_set for one folder *)
ScoreSharedSet ==
    /\ pc = "start"
    /\ \E flag \in BOOLEAN :
         LET name == IF flag THEN "shared_set_errors_as_timeout" ELSE "shared_set"
         IN /\ scorer \in {"none", name}
            /\ scorer' = name
            /\ \E sh \in SharedChoices :
                 /\ shared_tests \in {{}, sh}
                 /\ shared_tests' = sh
                 /\ out' = compute_par2_on_shared_set(res_list, sh, timeout_seconds, flag)
    /\ pc' = "scored"
    /\ ScoreFrame

(* parse_results_folder, single-run branch: the classification loop *)
SingleRunClassify ==
    /\ pc = "start"
    /\ scorer \in {"none", "single_run"}
    /\ res_list # <<>>
    /\ out' = [results |-> ClassifyResults(res_list, timeout_ms_of(timeout_seconds))]
    /\ scorer' = "single_run"
    /\ pc' = "classified"
    /\ UNCHANGED shared_tests
    /\ ScoreFrame

(* parse_results_folder, single-run branch: sort, statistics, report *)
SingleRunReport ==
    /\ pc = "classified"
    /\ scorer = "single_run"
    /\ out' = SingleRunScore(out.results, timeout_seconds)
    /\ pc' = "scored"
    /\ UNCHANGED <<scorer, shared_tests>>
    /\ ScoreFrame

(* compute_metrics_for_folder, single-run branch: the classification loop *)
PlotSingleRunClassify ==
    /\ pc = "start"
    /\ scorer \in {"none", "plot_single_run"}
    /\ res_list # <<>>
    /\ out' = [results |-> PlotClassifyResults(res_list, timeout_ms_of(timeout_seconds))]
    /\ scorer' = "plot_single_run"
    /\ pc' = "classified"
    /\ UNCHANGED shared_tests
    /\ ScoreFrame

(* compute_metrics_for_folder, single-run branch: the returned metrics *)
PlotSingleRunMetrics ==
    /\ pc = "classified"
    /\ scorer = "plot_single_run"
    /\ out' = PlotMetrics(out.results, timeout_seconds)
    /\ pc' = "scored"
    /\ UNCHANGED <<scorer, shared_tests>>
    /\ ScoreFrame

(* The folder gains one more log whose record is ERROR or UNKNOWN, and the
   same tool is run again *)
AddExcluded ==
    /\ pc = "scored"
    /\ Len(res_list) < MaxRecords + MaxAdded
    /\ \E e \in ExcludedRecords : res_list' = Append(res_list, e)
    /\ prev_out' = IF prev_out = Idle THEN out ELSE prev_out
    /\ out' = Idle
    /\ pc' = "start"
    /\ UNCHANGED <<timeout_seconds, shared_tests, scorer, entries, agg, plot_agg,
                   seed_results, averaged, multi, log_file, record, logs_dir, bin_keys,
                   folder_metrics, options>>

NextScore ==
    \/ ScorePerSeed
    \/ ScoreL2Sweep
    \/ ScoreSharedSet
    \/ SingleRunClassify
    \/ SingleRunReport
    \/ PlotSingleRunClassify
    \/ PlotSingleRunMetrics
    \/ AddExcluded

SpecScore == InitScore /\ [][NextScore]_vars

-----------------------------------------------------------------------------
(* Properties of scoring and classification *)

Remaining(rl) == {i \in DOMAIN rl : rl[i].result \notin {ERROR, UNKNOWN}}
SolvedWithin(rl, T) ==
    {i \in Remaining(rl) : rl[i].result \in {SAT, UNSAT} /\ rl[i].sim_time_ms <= T}
Par2Sum(rl, T) ==
    LET contribution == [i \in Remaining(rl) |->
                            IF i \in SolvedWithin(rl, T) THEN rl[i].sim_time_ms ELSE 2 * T]
    IN SumOver(Remaining(rl), contribution)

(* C2: PAR-2 scoring in parse_results.py.  Of the records whose outcome is not
   ERROR/UNKNOWN, a SAT/UNSAT record with sim_time_ms <= timeout_ms (boundary
   included) contributes its sim_time_ms and counts as solved, every other one
   contributes 2 * timeout_ms and is not solved; the score is the sum of the
   contributions over the number of remaining records, over 1000. *)
C2_Par2Scoring ==
    (pc = "scored" /\ scorer \in {"par2_and_solved", "single_run"}) =>
        LET T == timeout_ms_of(timeout_seconds)
            n == Cardinality(Remaining(res_list))
        IN /\ out.solved = Cardinality(SolvedWithin(res_list, T))
           /\ out.total = n
           /\ n > 0 => out.par2_score = Rat(Par2Sum(res_list, T), n * 1000)

C2_Witness ==
    /\ pc = "scored"
    /\ scorer = "par2_and_solved"
    /\ \E i, j \in DOMAIN res_list :
         /\ res_list[i].result = SAT
         /\ res_list[i].sim_time_ms = timeout_ms_of(timeout_seconds)
         /\ res_list[j].result = UNSAT
         /\ res_list[j].sim_time_ms > timeout_ms_of(timeout_seconds)
    /\ out.solved = 1
    /\ out.par2_score = Rat(3, 2)

(* C3: under the default policy, adding ERROR/UNKNOWN records to a population
   changes neither par2_seconds nor solved_count, for _compute_par2_and_solved,
   compute_par2_on_shared_set(errors_as_timeout=False) and compute_par2_score. *)
C3_ExcludedRecordsLeaveScore ==
    (pc = "scored" /\ prev_out # Idle
        /\ scorer \in {"par2_and_solved", "shared_set", "l2_sweep"}) =>
        /\ out.par2_score = prev_out.par2_score
        /\ scorer # "l2_sweep" => out.solved = prev_out.solved

(* C4: the timeout classifier turns a record into TIMEOUT with
   sim_time_ms = 2 * timeout_ms when it is SAT/UNSAT over the timeout, changes
   an outcome in no other case, and leaves SAT/UNSAT records within the timeout
   and all ERROR/UNKNOWN records as they are. *)
C4_TimeoutClassifier ==
    (pc = "classified") =>
        LET T == timeout_ms_of(timeout_seconds)
            over(r) == r.result \in {SAT, UNSAT} /\ r.sim_time_ms > T
        IN /\ Len(out.results) = Len(res_list)
           /\ \A i \in DOMAIN res_list :
                LET r == res_list[i]
                    c == out.results[i]
                IN /\ over(r) => c = [r EXCEPT !.result = TIMEOUT, !.sim_time_ms = 2 * T]
                   /\ c.result # r.result => over(r)
                   /\ (r.result \in {SAT, UNSAT} /\ r.sim_time_ms <= T) => c = r
                   /\ r.result \in {ERROR, UNKNOWN} => c = r

C4_Witness ==
    /\ pc = "classified"
    /\ scorer = "single_run"
    /\ \E i, j \in DOMAIN res_list :
         /\ res_list[i].result = SAT
         /\ res_list[i].sim_time_ms = 1200
         /\ out.results[i].result = TIMEOUT
         /\ out.results[i].sim_time_ms = 2000
         /\ res_list[j].result = UNKNOWN
         /\ out.results[j] = res_list[j]

-----------------------------------------------------------------------------
(* Reconciling the seeds of one test case *)

Counters == {1, 3}
ReconcileTimes == {500, 700, 1000, 1200}
ReconcileRecords ==
    {Rec("a", o, t, d) : o \in {SAT, UNSAT}, t \in ReconcileTimes, d \in Counters}
        \cup {Rec("a", o, 1200, d) : o \in {TIMEOUT, ERROR, UNKNOWN}, d \in Counters}

InitReconcile ==
    /\ pc = "start"
    /\ timeout_seconds \in TimeoutChoices
    /\ entries \in SeqsUpTo(ReconcileRecords, MaxSeeds) \ {<<>>}
    /\ agg = Idle
    /\ plot_agg = Idle
    /\ averaged = Idle
    /\ res_list = Idle
    /\ shared_tests = {}
    /\ scorer = "none"
    /\ out = Idle
    /\ prev_out = Idle
    /\ seed_results = Idle
    /\ multi = Idle
    /\ log_file = Idle
    /\ record = Idle
    /\ logs_dir = Idle
    /\ bin_keys = Idle
    /\ folder_metrics = Idle
    /\ options = Idle

ReconcileFrame == UNCHANGED <<timeout_seconds, res_list, prev_out,
                              entries, seed_results, multi,
                               log_file, record, logs_dir, bin_keys,
                   folder_metrics, options>>

(* parse_results_folder aggregates the case *)
ParseResultsAggregate ==
    /\ pc = "start"
    /\ agg' = AggregateCase(entries[1].test_case, entries, timeout_seconds)
    /\ averaged' = IF ClearsNumericFields(agg'.result)
                     THEN Idle
                     ELSE [entries_for_averaging |->
                             EntriesForAveraging(entries, agg'.result,
                                                 timeout_ms_of(timeout_seconds))]
    /\ pc' = "aggregated"
    /\ UNCHANGED <<plot_agg, shared_tests, scorer, out>>
    /\ ReconcileFrame

(* compute_metrics_for_folder aggregates the case *)
PlotAggregate ==
    /\ pc = "start"
    /\ \E result_str \in PlotReconcileLabels(LabelsOf(entries)) :
         plot_agg' = PlotAggregateCase(entries[1].test_case, entries, result_str,
                                       timeout_seconds)
    /\ pc' = "plot_aggregated"
    /\ UNCHANGED <<agg, averaged, shared_tests, scorer, out>>
    /\ ReconcileFrame

(* plot_comparison.py main: the shared test set of the folder and its PAR-2 *)
PlotScoreShared ==
    /\ pc = "plot_aggregated"
    /\ \E exclude_timeouts, errors_as_timeout \in BOOLEAN :
         LET sh == get_shared_test_set(<<plot_agg>>, timeout_seconds,
                                       exclude_timeouts, errors_as_timeout)
         IN /\ shared_tests' = sh
            /\ scorer' = IF errors_as_timeout
                           THEN "shared_set_errors_as_timeout" ELSE "shared_set"
            /\ out' = compute_par2_on_shared_set(<<plot_agg>>, sh, timeout_seconds,
                                                 errors_as_timeout)
    /\ pc' = "plot_scored"
    /\ UNCHANGED <<agg, averaged, plot_agg>>
    /\ ReconcileFrame

NextReconcile ==
    \/ ParseResultsAggregate
    \/ PlotAggregate
    \/ PlotScoreShared

SpecReconcile == InitReconcile /\ [][NextReconcile]_vars

-----------------------------------------------------------------------------
(* Properties of the seed reconcilers *)

SeedLabels == Range(LabelsOf(entries))
NotCarrying(l) == Cardinality({i \in DOMAIN entries : entries[i].result # l})
Carrying(l) == Cardinality({i \in DOMAIN entries : entries[i].result = l})
CombinedOutcome == IF pc = "aggregated" THEN agg.result ELSE plot_agg.result

(* C1: when the seeds of one instance carry both SAT and UNSAT, both
   reconcilers (parse_results_folder and compute_metrics_for_folder) set the
   combined outcome to exactly ERROR. *)
C1_ContradictionIsError ==
    (pc \in {"aggregated", "plot_aggregated"} /\ SAT \in SeedLabels /\ UNSAT \in SeedLabels) =>
        CombinedOutcome = ERROR

(* C7: when all seeds of an instance carry the same label, the combined outcome
   is that label, without a dissent count. *)
C7_UnanimousLabel ==
    (pc = "aggregated" /\ Cardinality(SeedLabels) = 1) =>
        /\ agg.result = entries[1].result
        /\ ~HasSuffix(agg.result)

C7_Witness ==
    /\ pc = "aggregated"
    /\ Len(entries) = 3
    /\ SeedLabels = {TIMEOUT}
    /\ agg.result = TIMEOUT

(* C8: when the labels differ and hold SAT but no UNSAT (UNSAT but no SAT),
   parse_results_folder gives "SAT k" ("UNSAT k"), k the number of seeds whose
   label is not SAT (not UNSAT), and 1 <= k < number of seeds. *)
C8_DissentCount ==
    (pc = "aggregated" /\ Cardinality(SeedLabels) > 1) =>
        /\ (SAT \in SeedLabels /\ UNSAT \notin SeedLabels) =>
              /\ agg.result = <<"SAT", <<NotCarrying(SAT)>>>>
              /\ 1 <= NotCarrying(SAT) /\ NotCarrying(SAT) < Len(entries)
        /\ (UNSAT \in SeedLabels /\ SAT \notin SeedLabels) =>
              /\ agg.result = <<"UNSAT", <<NotCarrying(UNSAT)>>>>
              /\ 1 <= NotCarrying(UNSAT) /\ NotCarrying(UNSAT) < Len(entries)

C8_Witness ==
    /\ pc = "aggregated"
    /\ LabelsOf(entries) = <<UNSAT, TIMEOUT, UNSAT>>
    /\ agg.result = <<"UNSAT", <<1>>>>

(* C9: when no seed is SAT or UNSAT and the labels differ, the combined outcome
   is the most frequent label followed by the number of seeds not carrying it
   (compute_metrics_for_folder writes that number as k/n). *)
C9_MostFrequentLabel ==
    (pc \in {"aggregated", "plot_aggregated"} /\ Cardinality(SeedLabels) > 1
        /\ SAT \notin SeedLabels /\ UNSAT \notin SeedLabels) =>
        \E l \in SeedLabels :
            /\ \A m \in SeedLabels : Carrying(m) <= Carrying(l)
            /\ \/ pc = "aggregated" /\ agg.result = <<l[1], <<NotCarrying(l)>>>>
               \/ pc = "plot_aggregated"
                    /\ plot_agg.result = <<l[1], <<NotCarrying(l), Len(entries)>>>>

(* C10: no ERROR/UNKNOWN seed is among the seeds whose counters are averaged
   into an aggregate record, a SAT/UNSAT seed is among them only if it finished
   within the timeout, and every TIMEOUT seed is among them. *)
C10_AveragedSeeds ==
    (pc = "aggregated" /\ averaged # Idle) =>
        LET T == timeout_ms_of(timeout_seconds)
            efa == averaged.entries_for_averaging
        IN /\ \A i \in DOMAIN efa :
                /\ efa[i].result \notin {ERROR, UNKNOWN}
                /\ efa[i].result \in {SAT, UNSAT} => efa[i].sim_time_ms <= T
           /\ \A i \in DOMAIN entries :
                entries[i].result = TIMEOUT => \E j \in DOMAIN efa : efa[j] = entries[i]

(* the seeds whose outcome is not ERROR/UNKNOWN, and the mean of their
   contributions *)
TimedSeeds == {i \in DOMAIN entries : entries[i].result \notin {ERROR, UNKNOWN}}
SeedContribution(i, T) ==
    IF entries[i].result \in {SAT, UNSAT} /\ entries[i].sim_time_ms <= T
      THEN entries[i].sim_time_ms
      ELSE 2 * T
MeanContribution(T) ==
    Rat(SumOver(TimedSeeds, [i \in TimedSeeds |-> SeedContribution(i, T)]),
        Cardinality(TimedSeeds))

(* C11 as stated: every aggregate with a seed that is not ERROR/UNKNOWN carries
   as sim_time_ms the mean, over the seeds that are not ERROR/UNKNOWN, of the
   seed's time if it is SAT/UNSAT within the timeout, else 2 * timeout_ms;
   also when the label carries a dissent suffix. *)
C11_EffectiveTime ==
    (pc = "aggregated" /\ TimedSeeds # {}) =>
        /\ "sim_time_ms" \in DOMAIN agg
        /\ agg.sim_time_ms = MeanContribution(timeout_ms_of(timeout_seconds))

(* C11 amended: an aggregate labelled SAT, UNSAT, TIMEOUT or 'TIMEOUT k' carries
   that mean as sim_time_ms; an aggregate with primary label ERROR/UNKNOWN or
   with a dissent suffix on SAT/UNSAT carries no sim_time_ms. *)
C11_EffectiveTimeOfKeptAggregates ==
    (pc = "aggregated") =>
        IF agg.result \in {SAT, UNSAT, TIMEOUT}
              \/ (HasSuffix(agg.result) /\ PrimaryLabel(agg.result) = TIMEOUT)
          THEN /\ TimedSeeds # {}
               /\ agg.sim_time_ms = MeanContribution(timeout_ms_of(timeout_seconds))
          ELSE "sim_time_ms" \notin DOMAIN agg

C11_Witness ==
    /\ pc = "aggregated"
    /\ timeout_seconds = 1
    /\ [i \in DOMAIN entries |-> <<entries[i].result, entries[i].sim_time_ms>>]
          = <<<<SAT, 500>>, <<SAT, 700>>>>
    /\ agg.result = SAT
    /\ agg.sim_time_ms = RatOfInt(600)

(* C12: with errors_as_timeout set, a scored row whose primary label is
   ERROR/UNKNOWN adds 1 * timeout_ms to the PAR-2 sum and counts in the
   denominator, and a row whose primary label is TIMEOUT adds 2 * timeout_ms. *)
C12_ErrorsAsTimeoutPenalty ==
    (pc = "plot_scored" /\ scorer = "shared_set_errors_as_timeout"
        /\ plot_agg.test_case \in shared_tests) =>
        LET T == timeout_ms_of(timeout_seconds)
        IN /\ out.total = 1
           /\ PrimaryLabel(plot_agg.result) \in {ERROR, UNKNOWN} =>
                 out.par2_score = Rat(T, MsPerSecond)
           /\ PrimaryLabel(plot_agg.result) = TIMEOUT =>
                 out.par2_score = Rat(2 * T, MsPerSecond)

-----------------------------------------------------------------------------
(* parse_results_folder on a folder of seed directories *)

(* the records a seed may hold of a case; the second case takes fewer shapes *)
SlotRecords(c) ==
    IF c = "a"
      THEN {Rec(c, SAT, 500, 1), Rec(c, UNSAT, 500, 1)}
              \cup {Rec(c, o, 1200, 1) : o \in {SAT, TIMEOUT, ERROR, UNKNOWN}}
      ELSE {Rec(c, SAT, 500, 1), Rec(c, TIMEOUT, 1200, 1), Rec(c, UNKNOWN, 1200, 1)}

(* the record lists of a seed directory that holds at most one log per case *)
SeedLists ==
    LET ab(x, y) == x \o y
        slot(c) == {<<>>} \cup {<<r>> : r \in SlotRecords(c)}
    IN {ab(x, y) : x \in slot("a"), y \in slot("b")} \ {<<>>}

InitMulti ==
    /\ pc = "start"
    /\ timeout_seconds \in TimeoutChoices
    /\ seed_results \in UNION {[1..k -> SeedLists] : k \in 1..MaxSeedDirs}
    /\ multi = Idle
    /\ entries = Idle
    /\ agg = Idle
    /\ plot_agg = Idle
    /\ averaged = Idle
    /\ res_list = Idle
    /\ shared_tests = {}
    /\ scorer = "none"
    /\ out = Idle
    /\ prev_out = Idle
    /\ log_file = Idle
    /\ record = Idle
    /\ logs_dir = Idle
    /\ bin_keys = Idle
    /\ folder_metrics = Idle
    /\ options = Idle

MultiFrame == UNCHANGED <<timeout_seconds, res_list, shared_tests, scorer, prev_out,
                          entries, agg, plot_agg, seed_results, averaged,
                           log_file, record, logs_dir, bin_keys,
                   folder_metrics, options>>

(* the test cases that have a stats.csv but no log in any seed directory, then
   the per-seed scores and the table of excluded tests *)
MultiPerSeed ==
    /\ pc = "start"
    /\ \E sc \in {{}, {StatsOnlyCase}} :
         multi' = [stats_cases |-> sc,
                   per_seed |-> PerSeedScores(seed_results, timeout_seconds)]
    /\ pc' = "per_seed"
    /\ UNCHANGED out
    /\ MultiFrame

(* the aggregate record of every test case *)
MultiAggregate ==
    /\ pc = "per_seed"
    /\ multi' = [stats_cases |-> multi.stats_cases,
                 per_seed |-> multi.per_seed,
                 aggregated_results |->
                    AggregatedResults(seed_results, multi.stats_cases, timeout_seconds)]
    /\ pc' = "aggregated"
    /\ UNCHANGED out
    /\ MultiFrame

(* the seed-averaged and the best-of-seeds statistics *)
MultiSummarise ==
    /\ pc = "aggregated"
    /\ multi' = [stats_cases |-> multi.stats_cases,
                 per_seed |-> multi.per_seed,
                 aggregated_results |-> multi.aggregated_results,
                 averages |-> SeedAverages(seed_results, multi.per_seed),
                 best |-> BestOfSeeds(seed_results, multi.stats_cases, multi.per_seed,
                                      timeout_seconds)]
    /\ pc' = "summarised"
    /\ UNCHANGED out
    /\ MultiFrame

(* the CSV report, of the aggregates or (--dump-best) of the best seeds *)
MultiReport ==
    /\ pc = "summarised"
    /\ \E output_file, dump_best \in BOOLEAN :
         out' = IF output_file
                  THEN [dump_best |-> dump_best,
                        report |-> MultiSeedReport(seed_results, multi, dump_best,
                                                   timeout_seconds)]
                  ELSE None
    /\ pc' = "done"
    /\ UNCHANGED multi
    /\ MultiFrame

NextMulti ==
    \/ MultiPerSeed
    \/ MultiAggregate
    \/ MultiSummarise
    \/ MultiReport

SpecMulti == InitMulti /\ [][NextMulti]_vars

-----------------------------------------------------------------------------
(* Properties of the multi-seed scores *)

RecordCases == UNION {{seed_results[s][i].test_case : i \in DOMAIN seed_results[s]} :
                        s \in DOMAIN seed_results}
RecordsOf(s, case) == {i \in DOMAIN seed_results[s] : seed_results[s][i].test_case = case}

(* C5 as stated: for any record population and timeout, the best-of-seeds
   PAR-2 is at most the average-of-seeds PAR-2. *)
C5_BestAtMostAverage ==
    (pc = "summarised" /\ multi.best.valid_test_count > 0) =>
        RatLeq(multi.best.best_par2_seconds, multi.averages.avg_par2_seconds)

(* the instances a seed scores: those it holds a record of whose outcome is
   not ERROR/UNKNOWN *)
ScoredCases(s) ==
    {seed_results[s][i].test_case :
        i \in {k \in DOMAIN seed_results[s] :
                 seed_results[s][k].result \notin {ERROR, UNKNOWN}}}

SeedsScoreSameInstances ==
    \A s, t \in DOMAIN seed_results : ScoredCases(s) = ScoredCases(t)

OneRecordPerInstance ==
    \A s \in DOMAIN seed_results : \A case \in RecordCases :
        Cardinality(RecordsOf(s, case)) <= 1

(* C5 amended: when every seed holds at most one record of an instance and
   every seed scores the same set of instances (the instances with a record
   whose outcome is not ERROR/UNKNOWN), the best-of-seeds PAR-2 is at most
   the average-of-seeds PAR-2. *)
C5_BestAtMostAverageSameInstances ==
    (/\ pc = "summarised" /\ multi.best.valid_test_count > 0
     /\ OneRecordPerInstance /\ SeedsScoreSameInstances) =>
        RatLeq(multi.best.best_par2_seconds, multi.averages.avg_par2_seconds)

C5_Witness ==
    /\ pc = "summarised"
    /\ Len(seed_results) = 2
    /\ ScoredCases(1) = Cases
    /\ OneRecordPerInstance
    /\ SeedsScoreSameInstances
    /\ multi.best.valid_test_count > 0
    /\ RatLess(multi.best.best_par2_seconds, multi.averages.avg_par2_seconds)

Contradictory(case) ==
    \E s, t \in DOMAIN seed_results :
        /\ \E i \in RecordsOf(s, case) : seed_results[s][i].result = SAT
        /\ \E j \in RecordsOf(t, case) : seed_results[t][j].result = UNSAT

Uncontradicted(s) ==
    SelectSeq(seed_results[s], LAMBDA r : ~Contradictory(r.test_case))

(* C6: an instance that is SAT in one seed and UNSAT in another appears in the
   table of excluded tests, and its seeds add neither a solve time nor a solved
   count to a per-seed score or to the best-of-seeds score. *)
C6_ContradictionFlagged ==
    (pc = "summarised") =>
        LET T == timeout_ms_of(timeout_seconds)
        IN /\ \A case \in RecordCases :
                Contradictory(case) =>
                    \E s \in DOMAIN seed_results : case \in Range(multi.per_seed[s].excluded)
           /\ \A s \in DOMAIN seed_results :
                LET rl == Uncontradicted(s)
                    n == Cardinality(Remaining(rl))
                IN /\ multi.per_seed[s].solved = Cardinality(SolvedWithin(rl, T))
                   /\ n > 0 => multi.per_seed[s].par2_score = Rat(Par2Sum(rl, T), n * 1000)
           /\ multi.best.valid_test_count > 0 =>
                multi.best.best_solved_count
                    <= Cardinality({case \in RecordCases : ~Contradictory(case)})

-----------------------------------------------------------------------------
(* Histograms: the bins unified_parser.parse_histogram stores in a record and
   their aggregation *)

(* str(n) and int(s) on the numerals the bins use; a string is a sequence of
   tokens, so that 'lo-hi' can be split at '-' *)
Decimal ==
    (0 :> "0") @@ (1 :> "1") @@ (2 :> "2") @@ (3 :> "3") @@ (4 :> "4") @@ (5 :> "5")
        @@ (6 :> "6") @@ (7 :> "7") @@ (8 :> "8") @@ (9 :> "9") @@ (10 :> "10")
        @@ (12 :> "12") @@ (19 :> "19")
IsNumeral(tok) == \E n \in DOMAIN Decimal : Decimal[n] = tok
IntOf(tok) == CHOOSE n \in DOMAIN Decimal : Decimal[n] = tok

(* key = start if start == end else f"{start}-{end}"; bins["out_of_bounds"] *)
IntKey(n) == [int |-> n]
StrKey(toks) == [str |-> toks]
BinKey(start, end) ==
    IF start = end THEN IntKey(start)
    ELSE StrKey(<<Decimal[start], "-", Decimal[end]>>)
OutOfBoundsKey == StrKey(<<"out_of_bounds">>)

(* str(bin_key) *)
KeyString(bin_key) ==
    IF "int" \in DOMAIN bin_key THEN <<Decimal[bin_key.int]>> ELSE bin_key.str

Bin(samples, pct) == [samples |-> samples, percentage |-> pct]

RECURSIVE AddBinsOfPercentages(_, _, _)
AddBinsOfPercentages(totals, bins, keys) ==
    IF keys = {} THEN totals
    ELSE LET bin_key == CHOOSE k \in keys : TRUE
             samples == bins[bin_key].percentage
             key_str == KeyString(bin_key)
             nxt == IF samples = 0 THEN totals
                    ELSE IF key_str \in DOMAIN totals
                      THEN [totals EXCEPT ![key_str] = @ + samples]
                    ELSE totals @@ (key_str :> samples)
         IN AddBinsOfPercentages(nxt, bins, keys \ {bin_key})

(* parse_histogram.py: aggregate_bins *)
RECURSIVE AddBins(_, _, _)
AddBins(totals, bins, keys) ==
    IF keys = {} THEN totals
    ELSE LET bin_key == CHOOSE k \in keys : TRUE
             samples == bins[bin_key].samples
             key_str == KeyString(bin_key)
             nxt == IF samples = 0 THEN totals
                    ELSE IF key_str \in DOMAIN totals
                      THEN [totals EXCEPT ![key_str] = @ + samples]
                    ELSE totals @@ (key_str :> samples)
         IN AddBins(nxt, bins, keys \ {bin_key})

RECURSIVE aggregate_bins_from(_, _, _)
aggregate_bins_from(totals, results, histogram_key) ==
    IF results = <<>> THEN totals
    ELSE LET r == Head(results)
             bins == IF histogram_key \in DOMAIN r THEN r[histogram_key] ELSE <<>>
         IN aggregate_bins_from(AddBins(totals, bins, DOMAIN bins),
                                Tail(results), histogram_key)

aggregate_bins(results, histogram_key) == aggregate_bins_from(<<>>, results, histogram_key)

(* k.split('-')[0]: the tokens before the first '-' *)
BeforeDash(k) ==
    LET dash == CHOOSE i \in DOMAIN k : k[i] = "-" /\ \A j \in 1..(i - 1) : k[j] # "-"
    IN SubSeq(k, 1, dash - 1)

(* int(s): a ValueError unless s is a numeral *)
IntRaisesOn(toks) == ~(Len(toks) = 1 /\ IsNumeral(toks[1]))

(* the order of Python's str on the keys that are no numbers *)
StringOrder == <<<<"avg">>, <<"total">>>>
StringRank(k) == CHOOSE i \in DOMAIN StringOrder : StringOrder[i] = k

(* parse_histogram.py: sort_bin_keys.key_fn, the tuple (class, position); a
   position is a number, float('inf') or, in class 4, the key itself *)
key_fn(k) ==
    IF k = <<"out_of_bounds">> THEN [class |-> 3, inf |-> TRUE, pos |-> 0]
    ELSE IF \E i \in DOMAIN k : k[i] = "-"
      THEN IF IntRaisesOn(BeforeDash(k))
             THEN [class |-> 2, inf |-> TRUE, pos |-> 0]
             ELSE [class |-> 2, inf |-> FALSE, pos |-> IntOf(BeforeDash(k)[1])]
    ELSE IF IntRaisesOn(k) THEN [class |-> 4, inf |-> FALSE, pos |-> StringRank(k)]
    ELSE [class |-> 1, inf |-> FALSE, pos |-> IntOf(k[1])]

KeyBefore(a, b) ==
    \/ key_fn(a).class < key_fn(b).class
    \/ /\ key_fn(a).class = key_fn(b).class
       /\ ~key_fn(a).inf
       /\ key_fn(b).inf \/ key_fn(a).pos < key_fn(b).pos

(* sorted(keys, key=key_fn), for keys no two of which have the same key_fn *)
RECURSIVE sort_bin_keys(_)
sort_bin_keys(keys) ==
    IF keys = {} THEN <<>>
    ELSE LET first == CHOOSE k \in keys : \A other \in keys \ {k} : KeyBefore(k, other)
         IN <<first>> \o sort_bin_keys(keys \ {first})

(* f"{pct:.6f}" of pct = cnt / grand_total * 100.0, as a number of millionths
   of a percent: the nearest one *)
MicroPerPercent == 1000000
FormatPercent(cnt, grand_total) ==
    (2 * cnt * 100 * MicroPerPercent + grand_total) \div (2 * grand_total)

(* parse_histogram.py: write_csv, the rows written after the header *)
write_csv(totals) ==
    LET ordered_keys == sort_bin_keys(DOMAIN totals)
        grand_total == SumOver(DOMAIN totals, totals)
    IN [k \in DOMAIN ordered_keys |->
           [bin |-> ordered_keys[k],
            count |-> totals[ordered_keys[k]],
            percent |-> IF grand_total > 0
                          THEN FormatPercent(totals[ordered_keys[k]], grand_total)
                          ELSE 0]]
       \o <<[bin |-> <<"TOTAL">>,
             count |-> grand_total,
             percent |-> IF grand_total > 0 THEN 100 * MicroPerPercent ELSE 0]>>

(* Merging the histograms of the runs of a folder *)

MaxRuns == 2
MergeKeys == {BinKey(1, 1), BinKey(3, 5), OutOfBoundsKey}
MergeBins == {Bin(0, 0), Bin(1, 50), Bin(2, 50)}
RunBins == UNION {[ks -> MergeBins] : ks \in SUBSET MergeKeys}
HistogramRuns == {[result |-> SAT, watchers_bins |-> b] : b \in RunBins}
                    \cup {[result |-> SAT]}

InitHistMerge ==
    /\ pc = "start"
    /\ res_list \in UNION {[1..k -> HistogramRuns] : k \in 1..MaxRuns}
    /\ out = Idle
    /\ timeout_seconds = 1
    /\ shared_tests = {}
    /\ scorer = "none"
    /\ prev_out = Idle
    /\ entries = Idle
    /\ agg = Idle
    /\ plot_agg = Idle
    /\ seed_results = Idle
    /\ averaged = Idle
    /\ multi = Idle
    /\ log_file = Idle
    /\ record = Idle
    /\ logs_dir = Idle
    /\ bin_keys = Idle
    /\ folder_metrics = Idle
    /\ options = Idle

HistFrame == UNCHANGED <<timeout_seconds, res_list, shared_tests, scorer, prev_out,
                         entries, agg, plot_agg, seed_results, averaged, multi,
                          log_file, record, logs_dir, bin_keys,
                   folder_metrics, options>>

HistAggregateBins ==
    /\ pc = "start"
    /\ out' = [totals |-> aggregate_bins(res_list, "watchers_bins")]
    /\ pc' = "merged"
    /\ HistFrame

HistWriteCsv ==
    /\ pc = "merged"
    /\ out' = [totals |-> out.totals, rows |-> write_csv(out.totals)]
    /\ pc' = "written"
    /\ HistFrame

NextHistMerge ==
    \/ HistAggregateBins
    \/ HistWriteCsv

SpecHistMerge == InitHistMerge /\ [][NextHistMerge]_vars

(* the samples the runs hold under a key string, and in all *)
RunSamples(i, key_str) ==
    IF "watchers_bins" \notin DOMAIN res_list[i] THEN 0
    ELSE LET bins == res_list[i].watchers_bins
             ks == {k \in DOMAIN bins : KeyString(k) = key_str}
         IN SumOver(ks, [k \in ks |-> bins[k].samples])
SamplesOf(key_str) ==
    SumOver(DOMAIN res_list, [i \in DOMAIN res_list |-> RunSamples(i, key_str)])
MergeKeyStrings == {KeyString(k) : k \in MergeKeys}
GrandTotal == SumOver(MergeKeyStrings, [ks \in MergeKeyStrings |-> SamplesOf(ks)])
BinRows == SubSeq(out.rows, 1, Len(out.rows) - 1)
Distance(a, b) == IF a < b THEN b - a ELSE a - b

(* C13: the merged count of a bin key is the sum over the runs of the key's
   samples (a key with no sample is left out); a written percentage is the
   merged count over the grand total times 100, whatever percentages the runs
   store; the written counts sum to the grand total, and when it is positive
   the written percentages sum to 100 within a relative 1e-6. *)
C13_HistogramMerge ==
    /\ pc \in {"merged", "written"} =>
          \A ks \in MergeKeyStrings :
             /\ ks \in DOMAIN out.totals <=> SamplesOf(ks) > 0
             /\ ks \in DOMAIN out.totals => out.totals[ks] = SamplesOf(ks)
    /\ pc = "written" =>
          /\ {BinRows[k].bin : k \in DOMAIN BinRows} = DOMAIN out.totals
          /\ \A k \in DOMAIN BinRows :
                /\ BinRows[k].count = SamplesOf(BinRows[k].bin)
                /\ GrandTotal > 0 =>
                      Distance(2 * GrandTotal * BinRows[k].percent,
                               2 * BinRows[k].count * 100 * MicroPerPercent) <= GrandTotal
          /\ SeqSum([k \in DOMAIN BinRows |-> BinRows[k].count]) = GrandTotal
          /\ out.rows[Len(out.rows)].count = GrandTotal
          /\ GrandTotal > 0 =>
                Distance(SeqSum([k \in DOMAIN BinRows |-> BinRows[k].percent]),
                         100 * MicroPerPercent) <= 100

C13_Witness ==
    /\ pc = "written"
    /\ Len(res_list) = 2
    /\ RunSamples(1, <<"1">>) = 1
    /\ RunSamples(2, <<"1">>) = 1
    /\ GrandTotal = 3
    /\ \E k \in DOMAIN BinRows :
          BinRows[k] = [bin |-> <<"1">>, count |-> 2, percent |-> 66666667]

-----------------------------------------------------------------------------
(* plot_prop_histogram.py: aggregate_histogram *)

DefaultNumBins == 11
OutOfBoundsWeight == 25

(* where the loop over bins.items() puts a bin with samples: a display bin
   counts[index], the details of the merged last bin with a weight, bin 0, or
   nowhere *)
BinPlace(bin_key, threshold) ==
    IF bin_key = OutOfBoundsKey
      THEN [place |-> "oob_details", weight |-> RatOfInt(OutOfBoundsWeight)]
    ELSE IF "str" \in DOMAIN bin_key /\ (\E i \in DOMAIN bin_key.str : bin_key.str[i] = "-")
      THEN LET start_str == bin_key.str[1]
               end_str == bin_key.str[3]
           IN IF ~(IsNumeral(start_str) /\ IsNumeral(end_str))
                THEN [place |-> "skipped"]
              ELSE LET start == IntOf(start_str)
                       end == IntOf(end_str)
                   IN IF start < 1
                        THEN IF start = 0 THEN [place |-> "bin0"] ELSE [place |-> "skipped"]
                      ELSE IF start >= threshold
                        THEN [place |-> "oob_details", weight |-> Rat(start + end, 2)]
                      ELSE [place |-> "counts", index |-> start]
    ELSE IF "str" \in DOMAIN bin_key /\ ~(Len(bin_key.str) = 1 /\ IsNumeral(bin_key.str[1]))
      THEN [place |-> "skipped"]
    ELSE LET idx == IF "int" \in DOMAIN bin_key THEN bin_key.int ELSE IntOf(bin_key.str[1])
         IN IF idx < 1
              THEN IF idx = 0 THEN [place |-> "bin0"] ELSE [place |-> "skipped"]
            ELSE IF idx >= threshold
              THEN [place |-> "oob_details", weight |-> RatOfInt(idx)]
            ELSE [place |-> "counts", index |-> idx]

(* the per-test values of one result: counts, oob_details as the bins that
   went there, bin0 and total *)
PerTest(r, histogram_key, threshold) ==
    LET bins == IF histogram_key \in DOMAIN r THEN r[histogram_key] ELSE <<>>
        counted == {k \in DOMAIN bins : bins[k].samples # 0}
        placed(p) == {k \in counted : BinPlace(k, threshold).place = p}
        samples_of(ks) == SumOver(ks, [k \in ks |-> bins[k].samples])
        counts == [i \in 1..(threshold - 1) |->
                     samples_of({k \in placed("counts") : BinPlace(k, threshold).index = i})]
        oob_total_count == samples_of(placed("oob_details"))
        bin0 == samples_of(placed("bin0"))
    IN [bins |-> bins,
        counts |-> counts,
        oob_details |-> placed("oob_details"),
        oob_total_count |-> oob_total_count,
        total |-> bin0 + SeqSum(counts) + oob_total_count]

(* x / total * 100.0 *)
PercentOf(x, total) == Rat(x * 100, total)

RECURSIVE SumRatOver(_, _)
SumRatOver(S, f) ==
    IF S = {} THEN Zero
    ELSE LET x == CHOOSE x \in S : TRUE IN RatAdd(f[x], SumRatOver(S \ {x}, f))

per_orig(t, threshold) ==
    [i \in 1..threshold |->
        IF i < threshold THEN PercentOf(t.counts[i], t.total)
        ELSE PercentOf(t.oob_total_count, t.total)]

per_weighted_unweighted_ranges(t, threshold) ==
    [i \in 1..threshold |->
        IF i < threshold THEN RatMul(RatOfInt(i), PercentOf(t.counts[i], t.total))
        ELSE SumRatOver(t.oob_details,
                        [k \in t.oob_details |->
                            RatMul(IF "str" \in DOMAIN k /\ k # OutOfBoundsKey
                                     THEN RatOfInt(IntOf(k.str[1]))
                                     ELSE BinPlace(k, threshold).weight,
                                   PercentOf(t.bins[k].samples, t.total))])]

per_weighted(t, threshold) ==
    [i \in 1..threshold |->
        IF i < threshold THEN RatMul(RatOfInt(i), PercentOf(t.counts[i], t.total))
        ELSE SumRatOver(t.oob_details,
                        [k \in t.oob_details |->
                            RatMul(BinPlace(k, threshold).weight,
                                   PercentOf(t.bins[k].samples, t.total))])]

aggregate_histogram(results, histogram_key, num_bins) ==
    LET threshold == num_bins - 1
        labels == [i \in 1..threshold |->
                     IF i < threshold THEN <<Decimal[i]>> ELSE <<">=", Decimal[threshold]>>]
        tests == [k \in DOMAIN results |-> PerTest(results[k], histogram_key, threshold)]
        used == {k \in DOMAIN results : tests[k].total # 0}
        num_tests == Cardinality(used)
        sum_of(f) == SumRatOver(used, [k \in used |-> f[k]])
    IN IF num_tests = 0
         THEN [labels |-> <<>>, avg_orig |-> <<>>, avg_weighted |-> <<>>, agg_counts |-> <<>>]
         ELSE [labels |-> labels,
               avg_orig |->
                  [i \in 1..threshold |->
                     RatDivInt(sum_of([k \in used |-> per_orig(tests[k], threshold)[i]]),
                               num_tests)],
               avg_weighted |->
                  [i \in 1..threshold |->
                     RatDivInt(sum_of([k \in used |-> per_weighted(tests[k], threshold)[i]]),
                               num_tests)],
               agg_counts |->
                  [i \in 1..threshold |->
                     IF i < threshold
                       THEN SumOver(DOMAIN results,
                                    [k \in DOMAIN results |-> tests[k].counts[i]])
                       ELSE SumOver(DOMAIN results,
                                    [k \in DOMAIN results |-> tests[k].oob_total_count])]]

(* The histograms of the runs that are plotted *)

LowBins == {<<>>,
            (BinKey(1, 1) :> Bin(40, 40)),
            (BinKey(1, 1) :> Bin(40, 40)) @@ (BinKey(2, 2) :> Bin(30, 30))}
HighBins == {<<>>,
             (BinKey(10, 19) :> Bin(10, 10)),
             (BinKey(10, 19) :> Bin(10, 10)) @@ (BinKey(12, 12) :> Bin(10, 10))}
OtherBins == {BinKey(0, 0) :> Bin(10, 10), BinKey(3, 5) :> Bin(20, 20),
              OutOfBoundsKey :> Bin(10, 10)}
RECURSIVE Merged(_)
Merged(fs) == IF fs = {} THEN <<>>
              ELSE LET f == CHOOSE f \in fs : TRUE IN f @@ Merged(fs \ {f})
PlottedBins == {l @@ h @@ Merged(o) : l \in LowBins, h \in HighBins, o \in SUBSET OtherBins}
PlottedRuns == {[result |-> SAT, watchers_bins |-> b] : b \in PlottedBins}
                  \cup {[result |-> SAT]}

InitHistWeighted ==
    /\ pc = "start"
    /\ res_list \in UNION {[1..k -> PlottedRuns] : k \in 1..MaxRuns}
    /\ out = Idle
    /\ timeout_seconds = 1
    /\ shared_tests = {}
    /\ scorer = "none"
    /\ prev_out = Idle
    /\ entries = Idle
    /\ agg = Idle
    /\ plot_agg = Idle
    /\ seed_results = Idle
    /\ averaged = Idle
    /\ multi = Idle
    /\ log_file = Idle
    /\ record = Idle
    /\ logs_dir = Idle
    /\ bin_keys = Idle
    /\ folder_metrics = Idle
    /\ options = Idle

(* plot_propagation_histograms aggregates the watchers histogram *)
HistAggregateWeighted ==
    /\ pc = "start"
    /\ out' = aggregate_histogram(res_list, "watchers_bins", DefaultNumBins)
    /\ pc' = "weighted"
    /\ HistFrame

NextHistWeighted == HistAggregateWeighted

SpecHistWeighted == InitHistWeighted /\ [][NextHistWeighted]_vars

(* Properties of the index-weighted distribution *)

IsRangeKey(k) == "str" \in DOMAIN k /\ k # OutOfBoundsKey
RangeLo(k) == IntOf(k.str[1])
RangeHi(k) == IntOf(k.str[3])
RunBinsOf(i) ==
    IF "watchers_bins" \in DOMAIN res_list[i] THEN res_list[i].watchers_bins ELSE <<>>
RunTotal(i) ==
    SumOver(DOMAIN RunBinsOf(i), [k \in DOMAIN RunBinsOf(i) |-> RunBinsOf(i)[k].samples])
AveragedRuns == {i \in DOMAIN res_list : RunTotal(i) > 0}

(* the weight of a bin: the index of an exact bin, the midpoint of a range bin,
   25 for the overflow bin *)
MidpointWeight(k) ==
    IF k = OutOfBoundsKey THEN RatOfInt(25)
    ELSE IF IsRangeKey(k) THEN Rat(RangeLo(k) + RangeHi(k), 2)
    ELSE RatOfInt(k.int)

(* the same, but a range bin that starts below num_bins - 1 weighs its start *)
DisplayWeight(k) ==
    IF IsRangeKey(k) /\ RangeLo(k) < DefaultNumBins - 1 THEN RatOfInt(RangeLo(k))
    ELSE MidpointWeight(k)

(* the display bin of a bin: its index or start, or the merged last bin *)
DisplayBin(k) ==
    LET index == IF k = OutOfBoundsKey THEN DefaultNumBins - 1
                 ELSE IF IsRangeKey(k) THEN RangeLo(k)
                 ELSE k.int
    IN IF index >= DefaultNumBins - 1 THEN DefaultNumBins - 1 ELSE index

(* the mean over the averaged runs of the sum, over the bins ks(i) of a run,
   of weight * samples / total * 100 *)
MeanWeighted(weight(_), ks(_)) ==
    RatDivInt(
        SumRatOver(AveragedRuns,
            [i \in AveragedRuns |->
                SumRatOver(ks(i),
                    [k \in ks(i) |->
                        RatMul(weight(k), Rat(RunBinsOf(i)[k].samples * 100, RunTotal(i)))])]),
        Cardinality(AveragedRuns))

AllBinsOf(i) == DOMAIN RunBinsOf(i)

(* C14 as stated: the weighted percentages are those of the weights exact
   index, midpoint of every range, 25 for overflow: summed over the display
   bins they are the mean over the runs of the sum of weight * percentage. *)
C14_MidpointWeights ==
    (pc = "weighted" /\ AveragedRuns # {}) =>
        SeqSumRat(out.avg_weighted) = MeanWeighted(MidpointWeight, AllBinsOf)

(* C14 amended: the weight of a range bin is its midpoint only when it starts
   at num_bins - 1 or above; a range bin that starts below is counted into the
   display bin of its start and weighs that start.  Each display bin holds the
   mean over the runs of the sum of weight * percentage of its bins. *)
C14_DisplayWeights ==
    (pc = "weighted" /\ AveragedRuns # {}) =>
        \A d \in 1..(DefaultNumBins - 1) :
            LET bins_of_d(i) == {k \in AllBinsOf(i) : DisplayBin(k) = d}
            IN out.avg_weighted[d] = MeanWeighted(DisplayWeight, bins_of_d)

C14_Witness ==
    /\ pc = "weighted"
    /\ Len(res_list) = 1
    /\ RunBinsOf(1) = (BinKey(1, 1) :> Bin(40, 40)) @@ (BinKey(2, 2) :> Bin(30, 30))
                        @@ (BinKey(3, 5) :> Bin(20, 20)) @@ (OutOfBoundsKey :> Bin(10, 10))
    /\ out.avg_weighted[1] = RatOfInt(40)
    /\ out.avg_weighted[2] = RatOfInt(60)
    /\ out.avg_weighted[3] = RatOfInt(60)
    /\ out.avg_weighted[10] = RatOfInt(250)

-----------------------------------------------------------------------------
(* unified_parser.py: parse_log_file on a satsolver log.  A log file is its
   name's hint and the sections of its text that the patterns look for:
     hint      group 2 of (.+?)_(sat|unsat)_\d{8}_\d{6}\.log$, or "" (no match)
     using_cnf whether the text has 'Using CNF file:'
     complete  whether the text has 'Simulation is complete'
     markers   which of SATISFIABLE, UNSATISFIABLE stand in the text
     time      groups 1 and 2 of 'simulated time: ([\d.]+)\s*(\w+)', or None
     solver    the Solver Statistics section, or None
     l1        the TOTAL line of the L1 Cache Profiler section, or None
     cycles    the Cycle Statistics section, or None
     watchers  the Parallel Watchers Histogram section, or None
   A number in the text is the sequence of its characters. *)

DigitValue ==
    ("0" :> 0) @@ ("1" :> 1) @@ ("2" :> 2) @@ ("3" :> 3) @@ ("4" :> 4)
        @@ ("5" :> 5) @@ ("6" :> 6) @@ ("7" :> 7) @@ ("8" :> 8) @@ ("9" :> 9)

RECURSIVE Pow10(_)
Pow10(n) == IF n = 0 THEN 1 ELSE 10 * Pow10(n - 1)

RECURSIVE DigitsValue(_)
DigitsValue(cs) ==
    IF cs = <<>> THEN 0
    ELSE 10 * DigitsValue(SubSeq(cs, 1, Len(cs) - 1)) + DigitValue[cs[Len(cs)]]

(* float(text) of a text matched by [\d.]+ : a ValueError unless it has at
   most one point and a digit *)
FloatRaises(cs) ==
    \/ Cardinality({i \in DOMAIN cs : cs[i] = "."}) > 1
    \/ \A i \in DOMAIN cs : cs[i] = "."
FloatOf(cs) ==
    LET digits == SelectSeq(cs, LAMBDA c : c # ".")
        point == IF \E i \in DOMAIN cs : cs[i] = "."
                   THEN CHOOSE i \in DOMAIN cs : cs[i] = "."
                   ELSE Len(cs) + 1
    IN Rat(DigitsValue(digits), Pow10(IF point > Len(cs) THEN 0 ELSE Len(cs) - point))

(* The numbers the modelled logs carry *)
WellFormedNumbers == {<<"5", "0", "0">>, <<"1", ".", "5">>}
MalformedNumbers == {<<"1", ".", "2", ".", "3">>}
Numbers == WellFormedNumbers \cup MalformedNumbers
TimeUnits == {"us", "ms", "s", "ns"}
FilenameHints == {"", "sat", "unsat"}

TimeSections == {None} \cup [value : Numbers, unit : TimeUnits]
SolverSections == {None, [decisions |-> 7]}
L1Sections == {None} \cup [total : {40}, miss_rate : {<<"1", ".", "5">>} \cup MalformedNumbers]
CycleSections == {None, [total_counted |-> 90]}
WatcherSections == {None} \cup [samples : {3}, pct : {<<"5", "0", "0">>} \cup MalformedNumbers]

(* A file name is the sequence of its parts: the base, a compression
   extension, a _sat/_unsat token, a _YYYYMMDD_HHMMSS stamp, and .log *)
StampToken == "_20240101_120000"
HintTokens == {"_sat", "_unsat"}
CompressionTokens == {".xz", ".gz", ".bz2"}
LogNames ==
    {<<"foo">> \o e \o h \o t \o <<".log">> :
        e \in {<<>>, <<".xz">>}, h \in {<<>>, <<"_sat">>, <<"_unsat">>},
        t \in {<<>>, <<StampToken>>}}

(* group 2 of (.+?)_(sat|unsat)_\d{8}_\d{6}\.log$ *)
HintOfName(name) ==
    IF /\ Len(name) >= 4
       /\ name[Len(name) - 1] = StampToken
       /\ name[Len(name) - 2] \in HintTokens
    THEN IF name[Len(name) - 2] = "_sat" THEN "sat" ELSE "unsat"
    ELSE ""
NameOfHint(hint) ==
    IF hint = "" THEN <<"foo", ".log">>
    ELSE <<"foo", IF hint = "sat" THEN "_sat" ELSE "_unsat", StampToken, ".log">>

(* The rows of <test_case>.stats.csv: whether ComponentName starts with
   global_l1cache, the StatisticName, the text of the Sum.u64 column *)
CsvRows ==
    {[l1cache |-> TRUE, name |-> "Prefetch_requests", sum |-> <<"5">>],
     [l1cache |-> TRUE, name |-> "Prefetch_requests", sum |-> <<"9">>],
     [l1cache |-> TRUE, name |-> "Prefetch_requests", sum |-> <<"x">>],
     [l1cache |-> TRUE, name |-> "Prefetch_drops", sum |-> <<"2">>],
     [l1cache |-> FALSE, name |-> "Prefetch_requests", sum |-> <<"7">>]}
StatsCsvs ==
    {None} \cup {[rows |-> rs] : rs \in {<<>>} \cup {<<r>> : r \in CsvRows}
                                          \cup {<<r, q>> : r, q \in CsvRows}}

(* the logs that vary in their sections *)
SectionLogs ==
    {[name |-> NameOfHint(g.hint), readable |-> TRUE, hint |-> g.hint,
      using_cnf |-> g.using_cnf, complete |-> g.complete,
      problem_statistics |-> FALSE, conflicts_line |-> FALSE, markers |-> g.markers,
      time |-> g.time, cpu_time |-> None, solver |-> g.solver, l1 |-> g.l1,
      cycles |-> g.cycles, watchers |-> g.watchers, stats_csv |-> None] :
        g \in {f \in [hint : FilenameHints, using_cnf : BOOLEAN, complete : BOOLEAN,
                       markers : SUBSET {"SATISFIABLE", "UNSATISFIABLE"},
                       time : TimeSections, solver : SolverSections, l1 : L1Sections,
                       cycles : CycleSections, watchers : WatcherSections] :
                  f.time # None => f.complete}}

(* the logs that vary in name, readability, format markers and CPU time *)
NamedLogs ==
    {[name |-> g.name, readable |-> g.readable, hint |-> HintOfName(g.name),
      using_cnf |-> g.using_cnf, complete |-> g.complete,
      problem_statistics |-> g.problem_statistics, conflicts_line |-> g.conflicts_line,
      markers |-> g.markers, time |-> None, cpu_time |-> g.cpu_time,
      solver |-> [decisions |-> 7], l1 |-> None, cycles |-> None, watchers |-> None,
      stats_csv |-> None] :
        g \in [name : LogNames, readable : BOOLEAN, using_cnf : BOOLEAN,
               complete : BOOLEAN, problem_statistics : BOOLEAN,
               conflicts_line : BOOLEAN,
               markers : {{}, {"SATISFIABLE"}, {"UNSATISFIABLE"}},
               cpu_time : {None} \cup {[value |-> n] : n \in Numbers}]}

(* the logs that vary in their companion stats.csv *)
CompanionLogs ==
    {[name |-> NameOfHint("sat"), readable |-> TRUE, hint |-> "sat",
      using_cnf |-> TRUE, complete |-> g.complete,
      problem_statistics |-> FALSE, conflicts_line |-> FALSE,
      markers |-> {}, time |-> g.time, cpu_time |-> None,
      solver |-> None, l1 |-> None, cycles |-> None, watchers |-> None,
      stats_csv |-> g.stats_csv] :
        g \in {f \in [complete : BOOLEAN, stats_csv : StatsCsvs,
                       time : {None, [value |-> <<"5", "0", "0">>, unit |-> "ms"],
                               [value |-> <<"1", ".", "2", ".", "3">>, unit |-> "ms"]}] :
                  f.time # None => f.complete}}

LogFiles == SectionLogs \cup NamedLogs \cup CompanionLogs

(* 'SATISFIABLE' in content, 'UNSATISFIABLE' in content: the second word
   holds the first *)
ContainsUnsatisfiable(f) == "UNSATISFIABLE" \in f.markers
ContainsSatisfiable(f) == f.markers # {}

detect_log_format_minisat_first(f) ==
    IF f.problem_statistics /\ f.conflicts_line THEN "minisat"
    ELSE IF f.using_cnf /\ f.complete THEN "satsolver"
    ELSE "unknown"

detect_log_format(f) ==
    IF f.using_cnf /\ f.complete THEN "satsolver"
    ELSE IF f.problem_statistics /\ f.conflicts_line THEN "minisat"
    ELSE "unknown"

(* the test case name each path makes of the file name *)
StripLast(name, tokens) ==
    IF name # <<>> /\ name[Len(name)] \in tokens
      THEN SubSeq(name, 1, Len(name) - 1)
      ELSE name

(* lines 513-519: group 1 of the pattern, else os.path.splitext(filename)[0] *)
SatsolverTestCase(name) ==
    IF HintOfName(name) # "" THEN SubSeq(name, 1, Len(name) - 3)
    ELSE StripLast(name, {".log"} \cup CompressionTokens)

(* lines 86-94: .log, then the stamp, then a compression extension *)
MinisatTestCase(name) ==
    StripLast(StripLast(StripLast(name, {".log"}), {StampToken}), CompressionTokens)

(* lines 455-458 *)
UnknownTestCase(name) ==
    StripLast(StripLast(StripLast(name, {".log"}), {StampToken}), CompressionTokens)

(* lines 475-476 *)
ReadFailureTestCase(name) == StripLast(name, {".log"})

EmptyLabel == <<"">>
Upper(hint) == IF hint = "sat" THEN SAT ELSE UNSAT

(* result.update(d): the keys of d replace those of result *)
Update(result, d) == d @@ result

MinimalRecord == [result |-> UNKNOWN, sim_time_ms |-> Zero]

(* lines 512-519: the filename's hint *)
HintStage(result, f) ==
    IF f.hint # "" THEN [result EXCEPT !.result = Upper(f.hint)] ELSE result

(* lines 546-550: the markers of the text *)
MarkerStage(result, f) ==
    IF ContainsUnsatisfiable(f) THEN [result EXCEPT !.result = UNSAT]
    ELSE IF ContainsSatisfiable(f) /\ ~ContainsUnsatisfiable(f)
         THEN [result EXCEPT !.result = SAT]
         ELSE result

(* lines 552-561: every unit other than us and s leaves time_val as read *)
TimeRaises(f) == f.time # None /\ FloatRaises(f.time.value)
TimeStage(result, f) ==
    IF f.time = None THEN result
    ELSE IF f.time.unit = "us"
         THEN [result EXCEPT !.sim_time_ms = RatDivInt(FloatOf(f.time.value), 1000)]
         ELSE IF f.time.unit = "s"
              THEN [result EXCEPT !.sim_time_ms = RatMul(FloatOf(f.time.value), RatOfInt(1000))]
              ELSE [result EXCEPT !.sim_time_ms = FloatOf(f.time.value)]

parse_solver_statistics(f) ==
    IF f.solver = None THEN <<>> ELSE [decisions |-> f.solver.decisions]

L1Raises(f) == f.l1 # None /\ FloatRaises(f.l1.miss_rate)
parse_l1_cache_statistics(f) ==
    IF f.l1 = None THEN <<>>
    ELSE [l1_total_requests |-> f.l1.total, l1_total_miss_rate |-> FloatOf(f.l1.miss_rate)]

parse_cycle_statistics(f) ==
    IF f.cycles = None THEN <<>> ELSE [total_counted_cycles |-> f.cycles.total_counted]

WatchersRaises(f) == f.watchers # None /\ FloatRaises(f.watchers.pct)
parse_histogram(f) ==
    IF f.watchers = None THEN <<>>
    ELSE [watchers_bins |->
            [samples |-> f.watchers.samples, percentage |-> FloatOf(f.watchers.pct)]]

(* lines 584-586 *)
FinalCheck(result) ==
    IF result.result \notin {SAT, UNSAT} THEN [result EXCEPT !.result = UNKNOWN]
    ELSE result

(* int(text or 0) of a Sum.u64 cell *)
IntRaises(cs) == \E i \in DOMAIN cs : cs[i] \notin DOMAIN DigitValue

(* lines 379-418: the last row of each statistic whose value is a number *)
RECURSIVE LastValue(_, _, _)
LastValue(rows, statistic, last) ==
    IF rows = <<>> THEN last
    ELSE LET row == Head(rows)
             counts == row.l1cache /\ row.name = statistic /\ ~IntRaises(row.sum)
         IN LastValue(Tail(rows), statistic,
                      IF counts THEN [value |-> DigitsValue(row.sum)] ELSE last)

parse_stats_csv_for_prefetch(f) ==
    IF f.stats_csv = None THEN <<>>
    ELSE LET last_requests == LastValue(f.stats_csv.rows, "Prefetch_requests", None)
             last_drops == LastValue(f.stats_csv.rows, "Prefetch_drops", None)
         IN (IF last_requests # None
               THEN [l1_prefetch_requests |-> last_requests.value] ELSE <<>>)
            @@ (IF last_drops # None
                  THEN [l1_prefetch_drops |-> last_drops.value] ELSE <<>>)

(* lines 55-152: parse_minisat_log *)
CpuTimeRaises(f) == f.cpu_time # None /\ FloatRaises(f.cpu_time.value)
parse_minisat_log(f) ==
    LET r0 == [test_case |-> MinisatTestCase(f.name), result |-> UNKNOWN,
               sim_time_ms |-> Zero, decisions |-> 0]
    IN IF CpuTimeRaises(f) THEN r0
       ELSE LET r1 == IF f.cpu_time = None THEN r0
                      ELSE [r0 EXCEPT !.sim_time_ms =
                                RatMul(FloatOf(f.cpu_time.value), RatOfInt(1000))]
                r2 == IF f.solver = None THEN r1
                      ELSE [r1 EXCEPT !.decisions = f.solver.decisions]
            IN MarkerStage(r2, f)

(* lines 500-592: the first exception ends the try block, and the except
   clause returns the dictionary as it stands *)
parse_satsolver_log(f) ==
    LET r0 == [test_case |-> SatsolverTestCase(f.name), result |-> EmptyLabel,
               sim_time_ms |-> Zero]
        r1 == MarkerStage(HintStage(r0, f), f)
    IN IF TimeRaises(f) THEN r1
       ELSE LET r2 == Update(Update(TimeStage(r1, f), parse_stats_csv_for_prefetch(f)),
                             parse_solver_statistics(f))
            IN IF L1Raises(f) THEN r2
               ELSE LET r3 == Update(Update(r2, parse_l1_cache_statistics(f)),
                                     parse_cycle_statistics(f))
                    IN IF WatchersRaises(f) THEN r3
                       ELSE FinalCheck(Update(r3, parse_histogram(f)))

(* lines 421-484 *)
parse_log_file(f) ==
    IF ~f.readable
      THEN Update(MinimalRecord, [test_case |-> ReadFailureTestCase(f.name)])
    ELSE IF detect_log_format(f) = "minisat" THEN parse_minisat_log(f)
    ELSE IF detect_log_format(f) = "satsolver" THEN parse_satsolver_log(f)
    ELSE Update(MinimalRecord, [test_case |-> UnknownTestCase(f.name)])

InitExtract ==
    /\ pc = "start"
    /\ log_file \in LogFiles
    /\ record = Idle
    /\ logs_dir = Idle
    /\ bin_keys = Idle
    /\ folder_metrics = Idle
    /\ options = Idle
    /\ timeout_seconds = Idle /\ res_list = Idle /\ shared_tests = Idle
    /\ scorer = Idle /\ out = Idle /\ prev_out = Idle /\ entries = Idle
    /\ agg = Idle /\ plot_agg = Idle /\ seed_results = Idle
    /\ averaged = Idle /\ multi = Idle

(* detect_log_format on the text of a file that can be read *)
DetectLogFormat ==
    /\ pc = "start"
    /\ log_file.readable
    /\ out' = detect_log_format(log_file)
    /\ pc' = "detected"
    /\ UNCHANGED <<timeout_seconds, res_list, shared_tests, scorer, prev_out, entries,
                   agg, plot_agg, seed_results, averaged, multi, log_file, record,
                   logs_dir, bin_keys,
                   folder_metrics, options>>

ParseLogFile ==
    /\ pc = "start"
    /\ record' = parse_log_file(log_file)
    /\ pc' = "parsed"
    /\ UNCHANGED <<timeout_seconds, res_list, shared_tests, scorer, out, prev_out,
                   entries, agg, plot_agg, seed_results, averaged, multi, log_file, logs_dir, bin_keys,
                   folder_metrics, options>>

NextExtract ==
    \/ DetectLogFormat
    \/ ParseLogFile

SpecExtract == InitExtract /\ [][NextExtract]_vars

-----------------------------------------------------------------------------
(* The sections of a log, the fields of the record each one fills, and the
   contents a section can have *)
SectionNames == {"time", "solver", "l1", "cycles", "watchers"}
SectionFields ==
    [time |-> {"sim_time_ms"}, solver |-> {"decisions"},
     l1 |-> {"l1_total_requests", "l1_total_miss_rate"},
     cycles |-> {"total_counted_cycles"}, watchers |-> {"watchers_bins"}]
SectionContents ==
    [time |-> TimeSections, solver |-> SolverSections, l1 |-> L1Sections,
     cycles |-> CycleSections, watchers |-> WatcherSections]
RecordFields == {"result"} \cup UNION {SectionFields[S] : S \in SectionNames}

Malformed(f, S) ==
    \/ S = "time" /\ TimeRaises(f)
    \/ S = "l1" /\ L1Raises(f)
    \/ S = "watchers" /\ WatchersRaises(f)
Damaged(f, S) == f[S] = None \/ Malformed(f, S)

(* the logs that differ from f in section S alone, where S is well-formed *)
Repairs(f, S) ==
    {g \in {[f EXCEPT ![S] = x] : x \in SectionContents[S]} :
        ~Damaged(g, S) /\ (g.time # None => g.complete)}

SameField(a, b, k) ==
    /\ (k \in DOMAIN a) = (k \in DOMAIN b)
    /\ k \in DOMAIN a => a[k] = b[k]

HasDefault(r, k) ==
    IF k = "sim_time_ms" THEN r.sim_time_ms = Zero ELSE k \notin DOMAIN r

(* C15: when one section of a satsolver log is missing or holds a number
   that cannot be parsed, and no other section is malformed, the fields of
   that section have their defaults and every other field of the record,
   the outcome included, has the value it has for the same log with that
   section well-formed. *)
C15_SectionFailuresIndependent ==
    (pc = "parsed" /\ log_file.readable /\ detect_log_format(log_file) = "satsolver") =>
        \A S \in SectionNames :
            (/\ Damaged(log_file, S)
             /\ \A S2 \in SectionNames \ {S} : ~Malformed(log_file, S2)) =>
                /\ \A k \in SectionFields[S] : HasDefault(record, k)
                /\ \A g \in Repairs(log_file, S) :
                       \A k \in RecordFields \ SectionFields[S] :
                           SameField(record, parse_log_file(g), k)

(* C16: the outcome of a satsolver log is UNSAT when its text has
   UNSATISFIABLE, else SAT when it has SATISFIABLE, else the filename's
   hint, else UNKNOWN. *)
C16_OutcomeResolution ==
    (pc = "parsed" /\ log_file.readable /\ detect_log_format(log_file) = "satsolver") =>
        record.result =
            IF "UNSATISFIABLE" \in log_file.markers THEN UNSAT
            ELSE IF "SATISFIABLE" \in log_file.markers THEN SAT
            ELSE IF log_file.hint = "sat" THEN SAT
            ELSE IF log_file.hint = "unsat" THEN UNSAT
            ELSE UNKNOWN

(* C17: for a satsolver log, sim_time_ms is VALUE/1000 for us, VALUE for ms,
   VALUE*1000 for s, and 0 when the pattern is absent or the unit is
   another word; the logs whose VALUE is not a number are left aside. *)
C17_ElapsedTime ==
    (/\ pc = "parsed"
     /\ log_file.readable /\ detect_log_format(log_file) = "satsolver"
     /\ ~TimeRaises(log_file)) =>
        record.sim_time_ms =
            IF log_file.time = None THEN Zero
            ELSE LET v == FloatOf(log_file.time.value)
                 IN CASE log_file.time.unit = "us" -> Rat(v.num, v.den * 1000)
                      [] log_file.time.unit = "ms" -> v
                      [] log_file.time.unit = "s" -> Rat(v.num * 1000, v.den)
                      [] OTHER -> Zero

-----------------------------------------------------------------------------
(* The seed records as the single-run classification would leave them *)
ClassifiedSeeds ==
    [s \in DOMAIN seed_results |->
        ClassifyResults(seed_results[s], timeout_ms_of(timeout_seconds))]

(* C18: in the multi-seed layout every per-seed record is timeout-classified
   before the reconciler reads its label: the label of each aggregate record
   is the one reconciled from the classified seed records. *)
C18_ClassifiedBeforeReconcile ==
    (pc = "aggregated") =>
        LET of_classified ==
                AggregatedResults(ClassifiedSeeds, multi.stats_cases, timeout_seconds)
        IN \A k \in DOMAIN multi.aggregated_results :
               multi.aggregated_results[k].result = of_classified[k].result

-----------------------------------------------------------------------------
(* parse_results_folder on seed directories that may hold two logs of one
   test case (the names of two logs of a case differ in hint or timestamp),
   in either order *)
OrderRecords ==
    {Rec("a", SAT, 500, 1), Rec("a", SAT, 1200, 1), Rec("a", UNKNOWN, 1200, 1),
     Rec("b", SAT, 500, 1)}
OrderLists == {<<r>> : r \in OrderRecords} \cup {<<r, q>> : r, q \in OrderRecords}

InitOrder ==
    /\ pc = "start"
    /\ timeout_seconds \in TimeoutChoices
    /\ seed_results \in UNION {[1..k -> OrderLists] : k \in 1..MaxSeedDirs}
    /\ multi = Idle
    /\ entries = Idle
    /\ agg = Idle
    /\ plot_agg = Idle
    /\ averaged = Idle
    /\ res_list = Idle
    /\ shared_tests = {}
    /\ scorer = "none"
    /\ out = Idle
    /\ prev_out = Idle
    /\ log_file = Idle
    /\ record = Idle
    /\ logs_dir = Idle
    /\ bin_keys = Idle
    /\ folder_metrics = Idle
    /\ options = Idle

SpecOrder == InitOrder /\ [][NextMulti]_vars

OrdersOf(seq) ==
    {[i \in DOMAIN seq |-> seq[p[i]]] :
        p \in {q \in [DOMAIN seq -> DOMAIN seq] : \A i, j \in DOMAIN seq : q[i] = q[j] => i = j}}

(* the seed lists with the records of each seed in another order *)
Reorderings(srs) ==
    {p \in [DOMAIN srs -> UNION {OrdersOf(srs[s]) : s \in DOMAIN srs}] :
        \A s \in DOMAIN srs : p[s] \in OrdersOf(srs[s])}

(* C20: for every order of the records within each seed's list, lists with
   two records of one test case included, the aggregate records and each
   seed's PAR-2, solved count and excluded set are the same. *)
C20_OrderIndependent ==
    (pc = "summarised") =>
        \A p \in Reorderings(seed_results) :
            /\ AggregatedResults(p, multi.stats_cases, timeout_seconds)
                   = multi.aggregated_results
            /\ \A s \in DOMAIN p :
                   LET score == compute_par2_and_solved(p[s], timeout_seconds)
                   IN /\ score.par2_score = multi.per_seed[s].par2_score
                      /\ score.solved = multi.per_seed[s].solved
                      /\ Range(score.excluded) = Range(multi.per_seed[s].excluded)

-----------------------------------------------------------------------------
(* C19: classifying the classified records of the single-run branch again,
   with the same timeout, changes none of them: neither outcome nor
   sim_time_ms, whatever the records were before the first classification
   (SAT/UNSAT within or over the timeout, TIMEOUT with any time, ERROR,
   UNKNOWN). *)
C19_ClassifyIdempotent ==
    (pc = "classified" /\ scorer = "single_run") =>
        LET T == timeout_ms_of(timeout_seconds)
        IN /\ ClassifyResults(out.results, T) = out.results
           /\ \A i \in DOMAIN out.results :
                (out.results[i].result = TIMEOUT /\ out.results[i].sim_time_ms = 2 * T) =>
                    LET again == ClassifyRecord(out.results[i], T)
                    IN again.result = TIMEOUT /\ again.sim_time_ms = 2 * T

C19_Witness ==
    /\ pc = "classified"
    /\ scorer = "single_run"
    /\ \E i, j \in DOMAIN res_list :
         /\ res_list[i].result \in {SAT, UNSAT}
         /\ res_list[i].sim_time_ms > timeout_ms_of(timeout_seconds)
         /\ out.results[i].result = TIMEOUT
         /\ res_list[j].result = TIMEOUT
         /\ res_list[j].sim_time_ms # 2 * timeout_ms_of(timeout_seconds)
         /\ ClassifyRecord(out.results[i], timeout_ms_of(timeout_seconds)) = out.results[i]
         /\ ClassifyRecord(out.results[j], timeout_ms_of(timeout_seconds)) = out.results[j]

-----------------------------------------------------------------------------
(* unified_parser.py: parse_log_directory.  The directory is the set of its
   *.log files; the names it can hold, in sorted order *)
DirNameOrder ==
    <<<<"bar", "_sat", StampToken, ".log">>, <<"foo", ".log">>, <<"summary", ".log">>>>
DirNames == {DirNameOrder[i] : i \in DOMAIN DirNameOrder}

(* what a file of the directory can be: a complete satsolver log, one with a
   malformed time, a text of no known format, a file that cannot be read *)
DirTexts ==
    {[readable |-> TRUE, using_cnf |-> TRUE,
      time |-> [value |-> <<"5", "0", "0">>, unit |-> "ms"]],
     [readable |-> TRUE, using_cnf |-> TRUE,
      time |-> [value |-> <<"1", ".", "2", ".", "3">>, unit |-> "ms"]],
     [readable |-> TRUE, using_cnf |-> FALSE, time |-> None],
     [readable |-> FALSE, using_cnf |-> TRUE,
      time |-> [value |-> <<"5", "0", "0">>, unit |-> "ms"]]}

DirFile(name, text) ==
    [name |-> name, readable |-> text.readable, hint |-> HintOfName(name),
     using_cnf |-> text.using_cnf, complete |-> text.using_cnf,
     problem_statistics |-> FALSE, conflicts_line |-> FALSE,
     markers |-> {"SATISFIABLE"}, time |-> text.time, cpu_time |-> None,
     solver |-> [decisions |-> 7], l1 |-> None, cycles |-> None, watchers |-> None,
     stats_csv |-> None]

Directories ==
    {{DirFile(n, d[n]) : n \in DOMAIN d} :
        d \in UNION {[ns -> DirTexts] : ns \in (SUBSET DirNames) \ {{}}}}

(* 'summary' in log_file.name.lower() *)
IsSummary(name) == name[1] = "summary"

(* sorted(log_files) *)
SortedFiles(files) ==
    LET named(n) == CHOOSE f \in files : f.name = n
        present == SelectSeq(DirNameOrder, LAMBDA n : \E f \in files : f.name = n)
    IN [i \in DOMAIN present |-> named(present[i])]

(* lines 617-629: every file that is not a summary is parsed, and every
   dictionary that is not empty is appended *)
RECURSIVE ParseLoop(_, _)
ParseLoop(files, results) ==
    IF files = <<>> THEN results
    ELSE LET f == Head(files)
             result == parse_log_file(f)
         IN ParseLoop(Tail(files),
                      IF IsSummary(f.name) THEN results
                      ELSE IF DOMAIN result # {} THEN Append(results, result)
                      ELSE results)

parse_log_directory(files) ==
    IF files = {} THEN <<>> ELSE ParseLoop(SortedFiles(files), <<>>)

InitDirectory ==
    /\ pc = "start"
    /\ logs_dir \in Directories
    /\ bin_keys = Idle
    /\ folder_metrics = Idle
    /\ options = Idle
    /\ res_list = Idle
    /\ log_file = Idle /\ record = Idle
    /\ timeout_seconds = Idle /\ shared_tests = Idle
    /\ scorer = Idle /\ out = Idle /\ prev_out = Idle /\ entries = Idle
    /\ agg = Idle /\ plot_agg = Idle /\ seed_results = Idle
    /\ averaged = Idle /\ multi = Idle

ParseLogDirectory ==
    /\ pc = "start"
    /\ res_list' = parse_log_directory(logs_dir)
    /\ pc' = "listed"
    /\ UNCHANGED <<timeout_seconds, shared_tests, scorer, out, prev_out, entries, agg,
                   plot_agg, seed_results, averaged, multi, log_file, record, logs_dir, bin_keys,
                   folder_metrics, options>>

NextDirectory == ParseLogDirectory

SpecDirectory == InitDirectory /\ [][NextDirectory]_vars

(* the files of the directory that parse_log_directory hands to
   parse_log_file *)
BatchFiles == {f \in logs_dir : ~IsSummary(f.name)}

(* C21: a file whose read fails contributes no record to the result list,
   and every other file of the batch contributes its record. *)
C21_FailedReadSkipped ==
    (pc = "listed") =>
        /\ \A f \in BatchFiles :
               ~f.readable =>
                   \A i \in DOMAIN res_list :
                       res_list[i].test_case # ReadFailureTestCase(f.name)
        /\ \A f \in BatchFiles :
               f.readable => \E i \in DOMAIN res_list : res_list[i] = parse_log_file(f)
        /\ Len(res_list) = Cardinality({f \in BatchFiles : f.readable})

-----------------------------------------------------------------------------
(* the rows of the companion file that count for a statistic, and the number
   in the last of them *)
CountingRows(rows, statistic) ==
    {i \in DOMAIN rows :
        /\ rows[i].l1cache
        /\ rows[i].name = statistic
        /\ \A k \in DOMAIN rows[i].sum : rows[i].sum[k] \in DOMAIN DigitValue}
LastCounted(rows, statistic) ==
    LET last == CHOOSE i \in CountingRows(rows, statistic) :
                    \A j \in CountingRows(rows, statistic) : j <= i
    IN DigitsValue(rows[last].sum)

CarriesLastValues(r, rows) ==
    /\ CountingRows(rows, "Prefetch_requests") # {} =>
           /\ "l1_prefetch_requests" \in DOMAIN r
           /\ r.l1_prefetch_requests = LastCounted(rows, "Prefetch_requests")
    /\ CountingRows(rows, "Prefetch_drops") # {} =>
           /\ "l1_prefetch_drops" \in DOMAIN r
           /\ r.l1_prefetch_drops = LastCounted(rows, "Prefetch_drops")

(* C22: when the log lacks 'Simulation is complete' and the companion
   stats.csv of its test case exists, the record carries the last recorded
   L1 prefetch requests and drops of that file. *)
C22_CompanionRecovery ==
    (/\ pc = "parsed"
     /\ log_file.readable
     /\ ~log_file.complete
     /\ log_file.stats_csv # None) =>
        CarriesLastValues(record, log_file.stats_csv.rows)

-----------------------------------------------------------------------------
(* C23: detect_log_format answers satsolver exactly when the text has both
   'Using CNF file:' and 'Simulation is complete', minisat exactly when it
   does not and the text has both 'Problem Statistics' and the conflicts
   line, and unknown otherwise; a readable text of unknown format gives a
   record with outcome UNKNOWN and no numeric field other than a zero
   sim_time_ms. *)
C23_FormatDetection ==
    LET satsolver_pair == log_file.using_cnf /\ log_file.complete
        minisat_pair == log_file.problem_statistics /\ log_file.conflicts_line
    IN /\ (pc = "detected") =>
              /\ out \in {"satsolver", "minisat", "unknown"}
              /\ (out = "satsolver") = satsolver_pair
              /\ (out = "minisat") = (~satsolver_pair /\ minisat_pair)
       /\ (pc = "parsed" /\ log_file.readable /\ ~satsolver_pair /\ ~minisat_pair) =>
              /\ record.result = UNKNOWN
              /\ record.sim_time_ms = Zero
              /\ DOMAIN record = {"test_case", "result", "sim_time_ms"}

C23_Witness ==
    /\ pc = "detected"
    /\ log_file.using_cnf /\ log_file.complete
    /\ log_file.problem_statistics /\ log_file.conflicts_line
    /\ out = "satsolver"

(* C25: the test_case of a record depends on the file name alone: it is the
   name each of the four paths (satsolver, minisat, unknown format, read
   failure) makes of the file name. *)
C25_OneKeyPerName ==
    (pc = "parsed") =>
        /\ record.test_case = SatsolverTestCase(log_file.name)
        /\ record.test_case = MinisatTestCase(log_file.name)
        /\ record.test_case = UnknownTestCase(log_file.name)
        /\ record.test_case = ReadFailureTestCase(log_file.name)

(* C26: the outcome of every record parse_log_file returns is SAT, UNSAT or
   UNKNOWN. *)
C26_OutcomeClosedSet ==
    (pc = "parsed") => record.result \in {SAT, UNSAT, UNKNOWN}

-----------------------------------------------------------------------------
(* parse_histogram.py: sort_bin_keys on any keys: numbers, ranges,
   out_of_bounds, and strings that are none of these *)
SortableKeys ==
    {<<"1">>, <<"2">>, <<"10">>, <<"3", "-", "5">>, <<"10", "-", "19">>,
     <<"out_of_bounds">>, <<"a", "-", "b">>, <<"avg">>, <<"total">>}

InitSortKeys ==
    /\ pc = "start"
    /\ bin_keys \in SUBSET SortableKeys
    /\ folder_metrics = Idle
    /\ options = Idle
    /\ out = Idle
    /\ res_list = Idle /\ logs_dir = Idle /\ log_file = Idle /\ record = Idle
    /\ timeout_seconds = Idle /\ shared_tests = Idle
    /\ scorer = Idle /\ prev_out = Idle /\ entries = Idle
    /\ agg = Idle /\ plot_agg = Idle /\ seed_results = Idle
    /\ averaged = Idle /\ multi = Idle

SortBinKeys ==
    /\ pc = "start"
    /\ out' = sort_bin_keys(bin_keys)
    /\ pc' = "sorted"
    /\ UNCHANGED <<timeout_seconds, res_list, shared_tests, scorer, prev_out, entries,
                   agg, plot_agg, seed_results, averaged, multi, log_file, record,
                   logs_dir, bin_keys,
                   folder_metrics, options>>

NextSortKeys == SortBinKeys

SpecSortKeys == InitSortKeys /\ [][NextSortKeys]_vars

(* the four groups of keys: 1 exact integers, 2 lo-hi ranges of two
   integers, 3 out_of_bounds, 4 every other key *)
IsExactKey(k) == Len(k) = 1 /\ IsNumeral(k[1])
IsWellFormedRange(k) == Len(k) = 3 /\ IsNumeral(k[1]) /\ k[2] = "-" /\ IsNumeral(k[3])
KeyGroup(k) ==
    IF IsExactKey(k) THEN 1
    ELSE IF IsWellFormedRange(k) THEN 2
    ELSE IF k = <<"out_of_bounds">> THEN 3
    ELSE 4

(* C24: sort_bin_keys returns every key once, the exact integer keys first
   in ascending order, then the lo-hi ranges in ascending order of lo, then
   out_of_bounds, then every other key, the keys with a '-' and a start that
   is no integer included. *)
C24_PresentationOrder ==
    (pc = "sorted") =>
        /\ {out[i] : i \in DOMAIN out} = bin_keys
        /\ Len(out) = Cardinality(bin_keys)
        /\ \A i, j \in DOMAIN out :
               i < j =>
                   /\ KeyGroup(out[i]) <= KeyGroup(out[j])
                   /\ (KeyGroup(out[i]) = 1 /\ KeyGroup(out[j]) = 1) =>
                          IntOf(out[i][1]) < IntOf(out[j][1])
                   /\ (KeyGroup(out[i]) = 2 /\ KeyGroup(out[j]) = 2) =>
                          IntOf(out[i][1]) < IntOf(out[j][1])

-----------------------------------------------------------------------------
(* C27: an aggregate labelled exactly SAT or UNSAT has sim_time_ms at most
   timeout_ms, and none of its seeds contributes the 2 * timeout_ms penalty
   to it. *)
C27_SolvedAggregateWithinTimeout ==
    (pc = "aggregated" /\ agg.result \in {SAT, UNSAT}) =>
        LET T == timeout_ms_of(timeout_seconds)
        IN /\ RatLeq(agg.sim_time_ms, RatOfInt(T))
           /\ \A i \in TimedSeeds : SeedContribution(i, T) # 2 * T

-----------------------------------------------------------------------------
(* C28: in the summary row of a multi-seed report, solved_count is at most
   total_problems, and total_problems is the denominator of the row's
   par2_score_seconds: the number of scored test cases for the best-of-seeds
   report, the mean of the seeds' scored record counts for the report of the
   seed averages. *)
C28_SummaryRowDenominator ==
    (pc = "done" /\ out # None) =>
        LET row == out.report.summary
        IN IF out.dump_best /\ AllCases(seed_results, multi.stats_cases) # {}
             THEN /\ row.solved_count <= row.total_problems
                  /\ row.total_problems = multi.best.valid_test_count
             ELSE /\ RatLeq(row.solved_count, row.total_problems)
                  /\ row.total_problems =
                        avg_of([s \in DOMAIN seed_results |->
                                  RatOfInt(multi.per_seed[s].total)])

-----------------------------------------------------------------------------
(* plot_comparison.py: get_shared_test_set over several folders, with the two
   manual lists. A test name is a sequence of tokens, its last token being
   its extension if it has one; a folder's records carry normalised names. *)

KnownExts == {".cnf", ".dimacs", ".smt2", ".xml", ".c", ".txt", ".log"}

LowerExt(tok) == IF tok = ".CNF" THEN ".cnf" ELSE tok

normalize_test_case(name) ==
    IF name = <<>> THEN name
    ELSE IF LowerExt(name[Len(name)]) \in KnownExts THEN SubSeq(name, 1, Len(name) - 1)
    ELSE name

TestOrder == <<<<"a">>, <<"b">>, <<"c">>>>
FolderNames == <<"f1", "f2">>

(* sorted(all_tests) *)
SortedTests(tests) == SelectSeq(TestOrder, LAMBDA t : t \in tests)

(* folder_test_info: per folder, test_case -> the record giving
   (primary_label, sim_ms) *)
FolderTestInfo(fm) == [f \in DOMAIN fm |-> SeedMap(fm[f])]

AllTests(fm) == UNION {DOMAIN FolderTestInfo(fm)[f] : f \in DOMAIN fm}

CandidateTests(fm, opts) ==
    LET normalized_exclusive_list ==
            [i \in DOMAIN opts.manual_exclusive_tests |->
                normalize_test_case(opts.manual_exclusive_tests[i])]
    IN IF normalized_exclusive_list # <<>> THEN normalized_exclusive_list
       ELSE SortedTests(AllTests(fm))

(* the body of the loop over the folders for one test: the reason the folder
   excludes the test, or "VALID" *)
FolderReason(info_map, test_case, secs, opts) ==
    IF test_case \notin DOMAIN info_map THEN "MISSING"
    ELSE LET status == PrimaryLabel(info_map[test_case].result)
             sim_ms == SimMs(info_map[test_case])
             is_timeout_like ==
                \/ status = TIMEOUT
                \/ (status \in {SAT, UNSAT}
                      /\ RatLess(RatOfInt(timeout_ms_of(secs)), sim_ms))
                \/ (opts.errors_as_timeout /\ status \in {ERROR, UNKNOWN})
         IN IF status \in {ERROR, UNKNOWN} /\ ~opts.errors_as_timeout THEN status[1]
            ELSE IF opts.exclude_timeouts /\ secs # 0 /\ is_timeout_like THEN "TIMEOUT"
            ELSE "VALID"

(* the first folder, in name order, that excludes the test *)
ExcludingFolders(fm, test_case, secs, opts) ==
    {f \in DOMAIN fm : FolderReason(FolderTestInfo(fm)[f], test_case, secs, opts) # "VALID"}

RECURSIVE CandidateLoopNoContinue(_, _, _, _, _)
CandidateLoopNoContinue(cands, fm, secs, opts, acc) ==
    IF cands = <<>> THEN acc
    ELSE LET test_case == Head(cands)
             normalized_exclusions ==
                {normalize_test_case(n) : n \in opts.manual_exclusions}
             acc1 == IF test_case \in normalized_exclusions
                       THEN [acc EXCEPT !.exclusion_table =
                                Append(@, <<test_case, "MANUAL", "MANUAL_EXCLUSION">>)]
                       ELSE acc
             bad == ExcludingFolders(fm, test_case, secs, opts)
             nxt == IF bad = {}
                      THEN [acc1 EXCEPT !.shared_tests = Append(@, test_case)]
                      ELSE LET f == SetMin(bad)
                           IN [acc1 EXCEPT !.exclusion_table =
                                 Append(@, <<test_case, FolderNames[f],
                                             FolderReason(FolderTestInfo(fm)[f],
                                                          test_case, secs, opts)>>)]
         IN CandidateLoopNoContinue(Tail(cands), fm, secs, opts, nxt)

(* the loop over candidate_tests *)
RECURSIVE CandidateLoop(_, _, _, _, _)
CandidateLoop(cands, fm, secs, opts, acc) ==
    IF cands = <<>> THEN acc
    ELSE LET test_case == Head(cands)
             normalized_exclusions ==
                {normalize_test_case(n) : n \in opts.manual_exclusions}
             bad == ExcludingFolders(fm, test_case, secs, opts)
             nxt == IF test_case \in normalized_exclusions
                      THEN [acc EXCEPT !.exclusion_table =
                                Append(@, <<test_case, "MANUAL", "MANUAL_EXCLUSION">>)]
                    ELSE IF bad = {}
                      THEN [acc EXCEPT !.shared_tests = Append(@, test_case)]
                    ELSE LET f == SetMin(bad)
                         IN [acc EXCEPT !.exclusion_table =
                               Append(@, <<test_case, FolderNames[f],
                                           FolderReason(FolderTestInfo(fm)[f],
                                                        test_case, secs, opts)>>)]
         IN CandidateLoop(Tail(cands), fm, secs, opts, nxt)

shared_test_set_of_folders(fm, secs, opts) ==
    IF fm = <<>> THEN [shared_tests |-> <<>>, exclusion_table |-> <<>>]
    ELSE CandidateLoop(CandidateTests(fm, opts), fm, secs, opts,
                    [shared_tests |-> <<>>, exclusion_table |-> <<>>])

(* the inputs: up to two folders, each holding at most one record of tests a
   and b; the manual lists name distinct tests *)
FolderRecord(t, o, ms) == [test_case |-> t, result |-> o, sim_time_ms |-> ms]

FolderSlot(t) ==
    {<<>>} \cup {<<FolderRecord(t, o, 500)>> : o \in {SAT, ERROR, <<"UNKNOWN", <<1, 2>>>>}}
           \cup {<<FolderRecord(t, SAT, 1200)>>, <<FolderRecord(t, TIMEOUT, 2000)>>}

FolderLists == {x \o y : x \in FolderSlot(<<"a">>), y \in FolderSlot(<<"b">>)}

ManualExclusionChoices == {{}, {<<"a", ".cnf">>}}
ManualExclusiveChoices == {<<>>, <<<<"b", ".CNF">>, <<"a">>>>, <<<<"c", ".cnf">>, <<"a", ".cnf">>>>}

SharedOptions ==
    [exclude_timeouts : BOOLEAN, errors_as_timeout : BOOLEAN,
     manual_exclusions : ManualExclusionChoices,
     manual_exclusive_tests : ManualExclusiveChoices]

InitShared ==
    /\ pc = "start"
    /\ timeout_seconds \in TimeoutChoices
    /\ folder_metrics \in UNION {[1..k -> FolderLists] : k \in 0..Len(FolderNames)}
    /\ options \in SharedOptions
    /\ res_list = Idle
    /\ shared_tests = {}
    /\ scorer = "none"
    /\ out = Idle
    /\ prev_out = Idle
    /\ entries = Idle
    /\ agg = Idle
    /\ plot_agg = Idle
    /\ seed_results = Idle
    /\ averaged = Idle
    /\ multi = Idle
    /\ log_file = Idle
    /\ record = Idle
    /\ logs_dir = Idle
    /\ bin_keys = Idle

GetSharedTestSet ==
    /\ pc = "start"
    /\ out' = shared_test_set_of_folders(folder_metrics, timeout_seconds, options)
    /\ pc' = "shared"
    /\ UNCHANGED <<timeout_seconds, res_list, shared_tests, scorer, prev_out, entries, agg,
                   plot_agg, seed_results, averaged, multi, log_file, record, logs_dir,
                   bin_keys, folder_metrics, options>>

NextShared == GetSharedTestSet

SpecShared == InitShared /\ [][NextShared]_vars

Occurrences(seq, x) == Cardinality({i \in DOMAIN seq : seq[i] = x})
TableTests == [i \in DOMAIN out.exclusion_table |-> out.exclusion_table[i][1]]

(* C29: every candidate test is exactly once in shared_tests or in the
   exclusion table, never in both, and nothing else is in either; a shared
   test is not manually excluded, is present in every folder, has primary
   label ERROR or UNKNOWN in no folder unless errors_as_timeout is set, and
   with exclude_timeouts is neither TIMEOUT nor over the timeout in any
   folder. *)
C29_SharedSetPartition ==
    (pc = "shared" /\ folder_metrics # <<>>) =>
        LET cands == CandidateTests(folder_metrics, options)
            candidates == {cands[i] : i \in DOMAIN cands}
            shared == {out.shared_tests[i] : i \in DOMAIN out.shared_tests}
            info == FolderTestInfo(folder_metrics)
            T == timeout_ms_of(timeout_seconds)
        IN /\ \A c \in candidates :
                Occurrences(out.shared_tests, c) + Occurrences(TableTests, c) = 1
           /\ shared \cup {TableTests[i] : i \in DOMAIN TableTests} = candidates
           /\ \A c \in shared :
                /\ \A n \in options.manual_exclusions : normalize_test_case(n) # c
                /\ \A f \in DOMAIN folder_metrics :
                     /\ c \in DOMAIN info[f]
                     /\ ~options.errors_as_timeout =>
                            PrimaryLabel(info[f][c].result) \notin {ERROR, UNKNOWN}
                     /\ options.exclude_timeouts =>
                            /\ PrimaryLabel(info[f][c].result) # TIMEOUT
                            /\ ~RatLess(RatOfInt(T), SimMs(info[f][c]))

C29_Witness ==
    /\ pc = "shared"
    /\ Len(folder_metrics) = 2
    /\ options.exclude_timeouts
    /\ options.manual_exclusions # {}
    /\ options.manual_exclusive_tests # <<>>
    /\ out.shared_tests = <<<<"b">>>>
    /\ \E i \in DOMAIN out.exclusion_table : out.exclusion_table[i][3] = "MANUAL_EXCLUSION"

-----------------------------------------------------------------------------
(* parse_results.py: parse_results_folder from the detection of the layout to
   its return. A folder is given by the records parse_log_directory returns
   for each seed* subdirectory (in name order) and for the folder itself. *)

FolderLogLists ==
    {<<>>, <<Rec("a", SAT, 500, 1)>>, <<Rec("a", SAT, 1200, 1)>>,
     <<Rec("b", UNSAT, 1200, 1), Rec("a", SAT, 500, 1)>>,
     <<Rec("a", UNKNOWN, 500, 1), Rec("b", SAT, 500, 1)>>}

Folders ==
    [seed_dirs : UNION {[1..k -> FolderLogLists] : k \in 0..MaxSeedDirs},
     top : FolderLogLists]

(* seed_results: the non-empty record lists of the seed directories *)
SeedResultsOf(folder) == SelectSeq(folder.seed_dirs, LAMBDA res : res # <<>>)

InitFolder ==
    /\ pc = "start"
    /\ timeout_seconds \in TimeoutChoices
    /\ logs_dir \in Folders
    /\ options \in [output_file : BOOLEAN, dump_best : BOOLEAN]
    /\ res_list = <<>>
    /\ seed_results = <<>>
    /\ shared_tests = {}
    /\ scorer = "none"
    /\ out = Idle
    /\ prev_out = Idle
    /\ entries = Idle
    /\ agg = Idle
    /\ plot_agg = Idle
    /\ averaged = Idle
    /\ multi = Idle
    /\ log_file = Idle
    /\ record = Idle
    /\ bin_keys = Idle
    /\ folder_metrics = Idle

FolderFrame == UNCHANGED <<timeout_seconds, shared_tests, scorer, prev_out, entries, agg,
                           plot_agg, averaged, multi, log_file, record, logs_dir,
                           bin_keys, folder_metrics, options>>

(* the seed directories hold logs: they are parsed *)
ParseSeedDirs ==
    /\ pc = "start"
    /\ logs_dir.seed_dirs # <<>>
    /\ SeedResultsOf(logs_dir) # <<>>
    /\ seed_results' = SeedResultsOf(logs_dir)
    /\ pc' = "seeds_parsed"
    /\ UNCHANGED <<res_list, out>>
    /\ FolderFrame

(* the multi-seed branch: the per-seed scores, the aggregates, the averages
   and the best-of-seeds statistics *)
MultiSeedStatistics ==
    /\ pc = "seeds_parsed"
    /\ multi' = LET per_seed == PerSeedScores(seed_results, timeout_seconds)
                IN [stats_cases |-> {},
                    per_seed |-> per_seed,
                    aggregated_results |->
                        AggregatedResults(seed_results, {}, timeout_seconds),
                    averages |-> SeedAverages(seed_results, per_seed),
                    best |-> BestOfSeeds(seed_results, {}, per_seed, timeout_seconds)]
    /\ pc' = "seeds_summarised"
    /\ UNCHANGED <<res_list, seed_results, out>>
    /\ UNCHANGED <<timeout_seconds, shared_tests, scorer, prev_out, entries, agg,
                   plot_agg, averaged, log_file, record, logs_dir,
                   bin_keys, folder_metrics, options>>

(* the multi-seed branch: its report and its early return *)
MultiSeedBranch ==
    /\ pc = "seeds_summarised"
    /\ out' = IF options.output_file
                THEN MultiSeedReport(seed_results, multi, options.dump_best,
                                     timeout_seconds)
                ELSE None
    /\ pc' = "returned"
    /\ UNCHANGED <<res_list, seed_results>>
    /\ FolderFrame

(* seed directories without logs: the logs of the folder itself are parsed *)
ParseFallBack ==
    /\ pc = "start"
    /\ logs_dir.seed_dirs # <<>>
    /\ SeedResultsOf(logs_dir) = <<>>
    /\ res_list' = logs_dir.top
    /\ IF logs_dir.top = <<>>
         THEN pc' = "returned" /\ out' = None
         ELSE pc' = "statistics" /\ UNCHANGED out
    /\ UNCHANGED seed_results
    /\ FolderFrame

(* a single-run folder: its logs are parsed and timeout-classified *)
ParseSingleRun ==
    /\ pc = "start"
    /\ logs_dir.seed_dirs = <<>>
    /\ IF logs_dir.top = <<>>
         THEN pc' = "returned" /\ out' = None /\ res_list' = logs_dir.top
         ELSE /\ pc' = "statistics"
              /\ res_list' = ClassifyResults(logs_dir.top, timeout_ms_of(timeout_seconds))
              /\ UNCHANGED out
    /\ UNCHANGED seed_results
    /\ FolderFrame

(* the statistics section and the report of single-run mode *)
StatisticsAndReport ==
    /\ pc = "statistics"
    /\ LET score == SingleRunScore(res_list, timeout_seconds)
       IN /\ out' = IF options.output_file /\ logs_dir.seed_dirs = <<>>
                      THEN write_csv_report(score.results, score.par2_score,
                                            score.solved, score.total)
                      ELSE None
          /\ res_list' = score.results
    /\ pc' = "returned"
    /\ UNCHANGED seed_results
    /\ FolderFrame

NextFolder ==
    \/ ParseSeedDirs
    \/ MultiSeedStatistics
    \/ MultiSeedBranch
    \/ ParseFallBack
    \/ ParseSingleRun
    \/ StatisticsAndReport

(* a step of the run: the position changes whenever a step is taken, and a
   step is possible at every position but the return *)
FolderPositions ==
    {"start", "seeds_parsed", "seeds_summarised", "statistics", "returned"}

Advance ==
    /\ pc # "returned"
    /\ pc' \in FolderPositions \ {pc}

(* the tool runs to its return: it does not stop at a position where a step is
   possible *)
SpecFolder == InitFolder /\ [][NextFolder]_vars /\ WF_pc(Advance)

RecordsParsed == pc \in {"seeds_parsed", "seeds_summarised", "statistics"}

(* the report of the folder's records with the timeout classification applied *)
ReportOfClassified ==
    /\ pc = "returned"
    /\ out # None
    /\ IF SeedResultsOf(logs_dir) # <<>>
         THEN LET of_classified == AggregatedResults(ClassifiedSeeds, {}, timeout_seconds)
              IN /\ Len(out.rows) = Len(of_classified)
                 /\ ~options.dump_best =>
                       \A k \in DOMAIN out.rows : out.rows[k].result = of_classified[k].result
         ELSE out.rows = SortByCase(ClassifyResults(logs_dir.top,
                                                    timeout_ms_of(timeout_seconds)))

(* C30: whenever parse_results_folder has parsed at least one record and was
   given an output path, it eventually writes a report of those records with
   the timeout classification applied, in the single-run layout, in the
   multi-seed layout and in the layout of seed directories without logs. *)
C30_ReportEventuallyWritten ==
    (RecordsParsed /\ options.output_file) ~> ReportOfClassified

====
